---- MODULE Spec2Model ----
(***************************************************************************)
(* Job execution orchestrator of the reconciliation platform               *)
(* (apps/platform/backend/api/v1/endpoints/jobs.py): the persisted Job     *)
(* row, the background tasks running execute_reconciliation, and the       *)
(* run_job / retry_job request handlers; the webhook dispatcher            *)
(* (core/webhooks.py, api/v1/endpoints/webhooks.py); the date range        *)
(* validation of the request schema and of the ingestors; and the          *)
(* reconciliation of the two fetched tables.                               *)
(***************************************************************************)
EXTENDS Integers, Sequences, FiniteSets, Bags, TLC

\* the job orchestrator
VARIABLES job, tasks, reqs, resp, runChain
\* the webhook store, the HTTP requests sent, the notify calls in flight
VARIABLES webhooks, deliveries, posts, cycles
\* one date range request, from submission to resolution
VARIABLES dr
\* one reconciliation, from the fetched tables to the summary
VARIABLES rec
\* the adapter fetches of the attempt in progress
VARIABLES fetch
\* one call of the email notifier
VARIABLES mail
\* one webhook request being built and sent
VARIABLES sig
\* the adapter response cache and the fetches made through it
VARIABLES cache
\* the rows of the jobs table under the writes of attempts and retries
VARIABLES frame

jobVars == <<job, tasks, reqs, resp, runChain>>
webhookVars == <<webhooks, deliveries, posts, cycles>>
leafVars == <<fetch, mail, sig, cache, frame>>

vars == <<job, tasks, reqs, resp, runChain,
          webhooks, deliveries, posts, cycles, dr, rec,
          fetch, mail, sig, cache, frame>>

(* ---------------------------------------------------------------------- *)
(* Bounds of the model                                                     *)
(* ---------------------------------------------------------------------- *)
\* background tasks that may be in flight at the same time
MaxTasks == 2
\* retry_job requests that may be in flight at the same time
MaxReqs == 2
\* notify calls (one event fired for one job) the webhook model starts
MaxCycles == 2
\* HTTP requests the webhook model sends in one behaviour
MaxDeliveries == 3
\* connector rows a client may have
MaxConnectors == 3
\* rows of a fetched table
MaxRows == 3

(* ---------------------------------------------------------------------- *)
(* Program constants                                                       *)
(* ---------------------------------------------------------------------- *)
DefaultDays == 30
DefaultMaxRetries == 3
MinMaxRetries == 0
MaxMaxRetries == 5
FirstAttempt == 1
BackoffBase == 2
ServerErrorFloor == 500
RateLimited == 429
\* e.status_code is None
None == -1

(* JobStatus (models/job.py) *)
PENDING == "pending"
RUNNING == "running"
COMPLETED == "completed"
FAILED == "failed"
RETRYING == "retrying"
\* no row with this id exists yet
ABSENT == "absent"

JobStatusValues == {PENDING, RUNNING, COMPLETED, FAILED, RETRYING}

(* WebhookEvent (models/webhook.py) *)
JOB_STARTED == "job.started"
JOB_COMPLETED == "job.completed"
JOB_FAILED == "job.failed"

(* ---------------------------------------------------------------------- *)
(* Values                                                                  *)
(* ---------------------------------------------------------------------- *)
NoError == [kind |-> "none", code |-> None]
NullLogs == [kind |-> "null", attempt |-> 0, error |-> NoError]
NullSummary == [null |-> TRUE, days_analyzed |-> 0]

\* client ids a request may name, and the clients that exist
ClientIds == {1, 2}
ExistingClients == {1}

\* the request bodies run_job is exercised with: no config, or a JobConfig
NoConfig ==
    [present |-> FALSE, days |-> 0, start_date |-> "None",
     end_date |-> "None", max_retries |-> 0]

JobConfigs ==
    { [present |-> TRUE, days |-> DefaultDays, start_date |-> "None",
       end_date |-> "None", max_retries |-> m] :
         m \in MinMaxRetries..MaxMaxRetries }
    \cup
    { [present |-> TRUE, days |-> 7, start_date |-> "2024-01-01",
       end_date |-> "2024-01-31", max_retries |-> 1] }

Configs == {NoConfig} \cup JobConfigs

ConnectorTypes == {"ga4", "woocommerce", "shopify"}

\* the connector rows of a client, by type, in the order the query returns them
ConnectorLists ==
    UNION { [1..n -> ConnectorTypes] : n \in 0..MaxConnectors }

\* status codes an adapter attaches to APIError: None (timeout / unexpected),
\* a client error, rate limiting, a server error
StatusCodes == {None, 404, RateLimited, 503}

\* what the try block of one attempt can end with
Outcomes ==
    { [kind |-> "ok", code |-> None],
      [kind |-> "ConfigurationError", code |-> None],
      [kind |-> "DataValidationError", code |-> None],
      [kind |-> "Exception", code |-> None] }
    \cup { [kind |-> "APIError", code |-> c] : c \in StatusCodes }

\* what WebhookService.notify can end with
NotifyResults ==
    {"no_webhooks", "delivered", "http_error", "timeout",
     "store_load_error", "store_record_error"}

NoJob ==
    [status |-> ABSENT, client_id |-> 0, days |-> 0,
     start_date |-> "None", end_date |-> "None",
     retry_count |-> 0, max_retries |-> 0,
     logs |-> NullLogs, result_summary |-> NullSummary,
     completed_at |-> FALSE]

\* what is observed of the attempt chain started by run_job while it runs:
\* attempts entered, job.started notifications sent, backoff sleeps taken,
\* and whether every attempt so far ended with APIError 503
NoChain == [execs |-> 0, started |-> 0, sleeps |-> <<>>, only503 |-> FALSE]

(* ---------------------------------------------------------------------- *)
(* Webhooks (models/webhook.py, core/webhooks.py)                          *)
(* ---------------------------------------------------------------------- *)
\* if webhook.failure_count >= 10   (_log_delivery_failure)
FailureThreshold == 10
\* test_webhook: Job(id=0, ...)
TestJobId == 0

(* WebhookStatus; WebhookStatus.FAILED is the string FAILED above *)
ACTIVE == "active"
INACTIVE == "inactive"
WebhookStatusValues == {ACTIVE, INACTIVE, FAILED}

WebhookEvents == {JOB_STARTED, JOB_COMPLETED, JOB_FAILED}

\* Webhook(client_id=..., events=..., status=ACTIVE), failure_count default 0
NewWebhook(client_id, events, failure_count) ==
    [client_id |-> client_id, events |-> events, status |-> ACTIVE,
     failure_count |-> failure_count]

\* the webhook rows of the store: two of client 1 (one subscribed to every
\* event, one to job.failed only) and one of client 2
WebhookIds == {1, 2, 3}

\* failures webhook 1 has already counted when the model starts
InitialFailureCounts == {0, FailureThreshold - 2}

ConfiguredWebhooks(failure_count) ==
    [w \in WebhookIds |->
        CASE w = 1 -> NewWebhook(1, {}, failure_count)
          [] w = 2 -> NewWebhook(1, {JOB_FAILED}, 0)
          [] w = 3 -> NewWebhook(2, {}, 0)]

\* what client.post ends with: a response (2xx or not), httpx.TimeoutException,
\* or any other exception (a network error)
HttpOutcomes == {"2xx", "non2xx", "timeout", "network_error"}

\* one notify call: the webhooks it loaded, as its session holds them
CycleIds == 1..MaxCycles

IdleCycle ==
    [pc |-> "idle", client_id |-> 0, event |-> "none",
     matching |-> {}, todo |-> <<>>, snap |-> <<>>]

\* the bodies of PUT /{webhook_id}: fields that are None are left alone
WebhookUpdates ==
    { [status |-> st, set_events |-> FALSE, events |-> {}] :
         st \in {"None", ACTIVE, INACTIVE} }
    \cup
    { [status |-> "None", set_events |-> TRUE, events |-> ev] :
         ev \in {{}, {"job.unknown"}} }

\* the requests the update and test endpoints are exercised with: webhook 1
\* under its own client and under another one
EndpointCalls == { <<1, 1>>, <<2, 1>> }

\* the notify calls the model fires: <<client_id, event>>
NotifyCalls == { <<1, JOB_STARTED>>, <<1, JOB_FAILED>>, <<2, JOB_FAILED>> }

(* ---------------------------------------------------------------------- *)
(* Dates: datetime.strptime(v, "%Y-%m-%d"), date and datetime arithmetic   *)
(* ---------------------------------------------------------------------- *)
SecondsPerDay == 86400
\* days are counted from January 1st of this year
EpochYear == 2021
LastYear == 2025
\* JobConfig.days: ge=1, le=365
MinDays == 1
MaxDays == 365
\* validate_date_string: timedelta(days=1), timedelta(days=730)
FutureBufferDays == 1
MaxAgeDays == 730
\* validate_date_range: if date_range_days > 365
MaxRangeDays == 365

\* the date strings the model submits, with the fields "%Y-%m-%d" reads from
\* those that match the pattern; "01-31-2024" and "" do not match it
DateFields ==
    [s \in {"2022-01-01", "2023-01-15", "2024-01-01", "2024-01-31",
            "2024-02-15", "2024-02-16", "2024-02-17", "2024-02-30"} |->
       CASE s = "2022-01-01" -> <<2022, 1, 1>>
         [] s = "2023-01-15" -> <<2023, 1, 15>>
         [] s = "2024-01-01" -> <<2024, 1, 1>>
         [] s = "2024-01-31" -> <<2024, 1, 31>>
         [] s = "2024-02-15" -> <<2024, 2, 15>>
         [] s = "2024-02-16" -> <<2024, 2, 16>>
         [] s = "2024-02-17" -> <<2024, 2, 17>>
         [] s = "2024-02-30" -> <<2024, 2, 30>>]

DateStrings == DOMAIN DateFields \cup {"None", "", "01-31-2024"}

IsLeap(y) == (y % 4 = 0 /\ y % 100 # 0) \/ y % 400 = 0

DaysInYear(y) == IF IsLeap(y) THEN 366 ELSE 365

DaysInMonth(y, m) ==
    CASE m \in {1, 3, 5, 7, 8, 10, 12} -> 31
      [] m \in {4, 6, 9, 11} -> 30
      [] OTHER -> IF IsLeap(y) THEN 29 ELSE 28

RECURSIVE DaysBeforeYear(_)
DaysBeforeYear(y) ==
    IF y <= EpochYear THEN 0 ELSE DaysBeforeYear(y - 1) + DaysInYear(y - 1)

RECURSIVE DaysBeforeMonth(_, _)
DaysBeforeMonth(y, m) ==
    IF m <= 1 THEN 0 ELSE DaysBeforeMonth(y, m - 1) + DaysInMonth(y, m - 1)

\* the day number of a calendar date
ToOrdinal(f) == DaysBeforeYear(f[1]) + DaysBeforeMonth(f[1], f[2]) + f[3] - 1

ValidDate(f) == f[2] \in 1..12 /\ f[3] \in 1..DaysInMonth(f[1], f[2])

\* the calendar date of a day number
FromOrdinal(n) ==
    CHOOSE f \in (EpochYear..LastYear) \X (1..12) \X (1..31) :
        ValidDate(f) /\ ToOrdinal(f) = n

\* datetime.strptime(v, "%Y-%m-%d"): ValueError unless the string matches the
\* pattern and names a day of the calendar
Strptime(v) ==
    IF v \in DOMAIN DateFields /\ ValidDate(DateFields[v])
    THEN [ok |-> TRUE, ordinal |-> ToOrdinal(DateFields[v])]
    ELSE [ok |-> FALSE, ordinal |-> 0]

\* a datetime is a number of seconds; its isoformat() fields
IsoFormat(dt) ==
    LET f == FromOrdinal(dt \div SecondsPerDay)
        t == dt % SecondsPerDay
    IN <<f[1], f[2], f[3], t \div 3600, (t % 3600) \div 60, t % 60>>

\* a variant that leaves the end at midnight
ReplaceEndOfDayMidnight(ordinal) == ordinal * SecondsPerDay

\* end_dt.replace(hour=23, minute=59, second=59)
ReplaceEndOfDay(ordinal) == ordinal * SecondsPerDay + (SecondsPerDay - 1)

\* start_dt.replace(hour=0, minute=0, second=0)
ReplaceStartOfDay(ordinal) == ordinal * SecondsPerDay

\* the instants the model submits and executes at: February 15th 2024, at
\* midnight and at noon, and December 30th 2023 at noon
Today == ToOrdinal(<<2024, 2, 15>>)
Clocks ==
    { Today * SecondsPerDay, Today * SecondsPerDay + 43200,
      ToOrdinal(<<2023, 12, 30>>) * SecondsPerDay + 43200 }

\* if start_date: / if end_date:   (None and "" are false)
Given(v) == v \notin {"None", ""}

\* validate_date_string, with date.today() = today
ValidateDateString(v, today) ==
    \/ v = "None"
    \/ /\ Strptime(v).ok
       /\ Strptime(v).ordinal <= today + FutureBufferDays
       /\ Strptime(v).ordinal >= today - MaxAgeDays

\* JobConfig(days, start_date, end_date): the field constraints, the two
\* validators and the root validator; TRUE when the request is accepted
JobConfigAccepts(days, start_date, end_date, today) ==
    /\ days >= MinDays /\ days <= MaxDays
    /\ ValidateDateString(start_date, today)
    /\ ValidateDateString(end_date, today)
    /\ (Given(start_date) /\ Given(end_date)) =>
          /\ Strptime(start_date).ordinal <= Strptime(end_date).ordinal
          /\ Strptime(end_date).ordinal - Strptime(start_date).ordinal
                <= MaxRangeDays

NoRange == [kind |-> "none", start |-> 0, end |-> 0]
DateRangeError == [kind |-> "DataValidationError", start |-> 0, end |-> 0]

\* BaseIngestor._get_date_range, with datetime.now() = now
GetDateRange(days, start_date, end_date, now) ==
    IF (Given(end_date) /\ ~Strptime(end_date).ok)
       \/ (Given(start_date) /\ ~Strptime(start_date).ok)
    THEN DateRangeError
    ELSE LET end_dt == IF Given(end_date)
                       THEN ReplaceEndOfDay(Strptime(end_date).ordinal)
                       ELSE now
             start_dt == IF Given(start_date)
                         THEN ReplaceStartOfDay(Strptime(start_date).ordinal)
                         ELSE end_dt - days * SecondsPerDay
         IN IF start_dt > end_dt THEN DateRangeError
            ELSE IF start_dt > now + FutureBufferDays * SecondsPerDay
                 THEN DateRangeError
                 ELSE [kind |-> "ok", start |-> start_dt, end |-> end_dt]

\* the days values the model submits
DaysValues == {0, 7, DefaultDays}

(* ---------------------------------------------------------------------- *)
(* Reconciliation of the two fetched tables (execute_reconciliation, 3.-4.)*)
(* ---------------------------------------------------------------------- *)
\* match_rate is kept in hundredths of a percent: round(match_rate, 2) * 100
Percent == 100
Hundredths == 100

\* the rows a fetched table is built from: clean_id and value
FetchedRows ==
    { [clean_id |-> "A", value |-> 100], [clean_id |-> "B", value |-> 200],
      [clean_id |-> "C", value |-> 300], [clean_id |-> "A", value |-> 150] }

\* a DataFrame with the columns clean_id and value: its rows in order; the one
\* without rows is pd.DataFrame(columns=["clean_id", "value"])
DataFrames == UNION { [1..n -> FetchedRows] : n \in 0..MaxRows }

\* set(df['clean_id'])
CleanIds(df) == { df[i].clean_id : i \in DOMAIN df }

\* df['value'].sum() if not df.empty else 0
RECURSIVE ValueSum(_)
ValueSum(df) ==
    IF df = <<>> THEN 0 ELSE df[1].value + ValueSum(Tail(df))

\* round(x, 2) of x = num / den percent, in hundredths: to the nearest, a tie
\* to the even neighbour
RoundHundredths(num, den) ==
    LET scaled == num * Hundredths
        q == scaled \div den
        r == scaled % den
    IN IF 2 * r < den THEN q
       ELSE IF 2 * r > den THEN q + 1
       ELSE IF q % 2 = 0 THEN q ELSE q + 1

\* a variant that takes the ids of the analytics side the backend lacks
MissingIdsSwapped(df_backend, df_ga4) == CleanIds(df_ga4) \ CleanIds(df_backend)

\* missing_ids = set(df_backend['clean_id']) - set(df_ga4['clean_id'])
MissingIds(df_backend, df_ga4) == CleanIds(df_backend) \ CleanIds(df_ga4)

\* common = set(df_ga4['clean_id']) & set(df_backend['clean_id'])
Common(df_backend, df_ga4) == CleanIds(df_ga4) \cap CleanIds(df_backend)

\* round(len(common) / len(df_backend) * 100 if len(df_backend) > 0 else 0, 2)
MatchRate(df_backend, df_ga4) ==
    IF Len(df_backend) > 0
    THEN RoundHundredths(Cardinality(Common(df_backend, df_ga4)) * Percent,
                         Len(df_backend))
    ELSE 0

NoReconcileSummary ==
    [null |-> TRUE, match_rate |-> 0, total_backend_value |-> 0,
     total_ga4_value |-> 0, missing_count |-> 0, missing_ids |-> {},
     ga4_records |-> 0, backend_records |-> 0]

\* summary = {"match_rate": ..., "total_backend_value": ..., ...}
ReconcileSummary(df_backend, df_ga4) ==
    [null |-> FALSE,
     match_rate |-> MatchRate(df_backend, df_ga4),
     total_backend_value |-> ValueSum(df_backend),
     total_ga4_value |-> ValueSum(df_ga4),
     missing_count |-> Cardinality(MissingIds(df_backend, df_ga4)),
     missing_ids |-> MissingIds(df_backend, df_ga4),
     ga4_records |-> Len(df_ga4),
     backend_records |-> Len(df_backend)]

(* ---------------------------------------------------------------------- *)
(* Pure helpers of the orchestrator                                        *)
(* ---------------------------------------------------------------------- *)
\* a variant that retries every status code from 400 on
IsRetryableFrom400(code) ==
    code = None \/ code >= 400

\* is_retryable = e.status_code is None or e.status_code >= 500 or e.status_code == 429
IsRetryable(code) ==
    code = None \/ code >= ServerErrorFloor \/ code = RateLimited

\* backoff_seconds = 2 ** attempt
BackoffSeconds(attempt) == BackoffBase ^ attempt

\* a variant whose comparison admits one attempt more
ShouldRetryAPIErrorInclusive(code, attempt, max_retries) ==
    IsRetryable(code) /\ attempt <= max_retries

\* if is_retryable and attempt < job.max_retries
ShouldRetryAPIError(code, attempt, max_retries) ==
    IsRetryable(code) /\ attempt < max_retries

\* a variant whose comparison admits one attempt more
ShouldRetryUnexpectedInclusive(attempt, max_retries) == attempt <= max_retries

\* if attempt < max_retries   (except Exception)
ShouldRetryUnexpected(attempt, max_retries) == attempt < max_retries

\* a variant whose comparison admits a retry at retry_count = max_retries
CanRetryInclusive(status, retry_count, max_retries) ==
    status = FAILED /\ retry_count <= max_retries

\* Job.can_retry
CanRetry(status, retry_count, max_retries) ==
    status = FAILED /\ retry_count < max_retries

\* the connector loop: which ingestors are set after it (a later connector of
\* a type replaces the ingestor of an earlier one)
HasGA4(conns) == \E i \in DOMAIN conns : conns[i] = "ga4"
HasBackend(conns) ==
    \E i \in DOMAIN conns : conns[i] \in {"woocommerce", "shopify"}

\* if not ga4_ingestor or not backend_ingestor: ... return; else the fetches
ReachesFetch(conns) == HasGA4(conns) /\ HasBackend(conns)

\* The outcome of the try block, given the client's connectors and what the
\* ingestors do.  Constructing an ingestor or decrypting a config can raise
\* inside the connector loop, before the missing-connector check.
Effective(conns, o) ==
    IF conns # <<>> /\ o.kind \in {"ConfigurationError", "Exception"}
    THEN o
    ELSE IF ~ReachesFetch(conns)
         THEN [kind |-> "missing", code |-> None]
         ELSE o

\* summary = {"match_rate": ..., "days_analyzed": days, ...}: a non-null value
Summary(days) ==
    [null |-> FALSE, days_analyzed |-> days]

\* WebhookService.notify lets an error of the webhook store escape; HTTP
\* errors and timeouts are caught in _send_webhook
NotifyRaises(res) == res \in {"store_load_error", "store_record_error"}

WebhookStoreError == [kind |-> "WebhookStoreError", code |-> None]

\* every outcome of the try block over the connectors a client can have
EffectiveOutcomes ==
    {Effective(conns, o) : conns \in ConnectorLists, o \in Outcomes}

\* whether notify returns or raises, over everything it can end with
NotifyEndings == {NotifyRaises(res) : res \in NotifyResults}

(* ---------------------------------------------------------------------- *)
(* Writes to the Job row (each is one commit)                              *)
(* ---------------------------------------------------------------------- *)
\* job.status = FAILED; job.logs = "Missing connectors: ..."
WriteMissingConnectors(j) ==
    [j EXCEPT !.status = FAILED,
              !.logs = [kind |-> "missing", attempt |-> 0, error |-> NoError]]

\* job.status = COMPLETED; job.result_summary = summary; job.completed_at = now
WriteCompleted(j, days) ==
    [j EXCEPT !.status = COMPLETED,
              !.result_summary = Summary(days),
              !.completed_at = TRUE]

\* except (ConfigurationError, DataValidationError)
WriteNonRetryable(j, err) ==
    [j EXCEPT !.status = FAILED,
              !.logs = [kind |-> "error", attempt |-> 0, error |-> err]]

\* except APIError
WriteAPIError(j, err, attempt) ==
    IF ShouldRetryAPIError(err.code, attempt, j.max_retries)
    THEN [j EXCEPT !.retry_count = attempt,
                   !.status = RETRYING,
                   !.logs = [kind |-> "retryable", attempt |-> attempt, error |-> err]]
    ELSE [j EXCEPT !.retry_count = attempt,
                   !.status = FAILED,
                   !.logs = [kind |-> "failed_after", attempt |-> attempt, error |-> err]]

\* except Exception
WriteUnexpected(j, err, attempt) ==
    IF ShouldRetryUnexpected(attempt, j.max_retries)
    THEN [j EXCEPT !.retry_count = attempt,
                   !.status = RETRYING,
                   !.logs = [kind |-> "attempt_failed", attempt |-> attempt, error |-> err]]
    ELSE [j EXCEPT !.retry_count = attempt,
                   !.status = FAILED,
                   !.logs = [kind |-> "failed_after", attempt |-> attempt, error |-> err]]

\* a variant that also grants one more retry
WriteManualRetryRaisesBudget(j, seen_retry_count) ==
    [j EXCEPT !.status = RUNNING, !.retry_count = seen_retry_count + 1,
              !.max_retries = @ + 1]

\* retry_job: job.status = RUNNING; job.retry_count += 1
WriteManualRetry(j, seen_retry_count) ==
    [j EXCEPT !.status = RUNNING, !.retry_count = seen_retry_count + 1]

\* JobModel(client_id=..., status=RUNNING, days=..., max_retries=...)
NewJob(client_id, config) ==
    [status |-> RUNNING, client_id |-> client_id,
     days |-> IF config.present THEN config.days ELSE DefaultDays,
     start_date |-> IF config.present THEN config.start_date ELSE "None",
     end_date |-> IF config.present THEN config.end_date ELSE "None",
     retry_count |-> 0,
     max_retries |-> IF config.present THEN config.max_retries
                     ELSE DefaultMaxRetries,
     logs |-> NullLogs, result_summary |-> NullSummary,
     completed_at |-> FALSE]

\* background_tasks.add_task(execute_reconciliation, id, client_id, days,
\*                           start_date, end_date, attempt)
NewTask(origin, client_id, days, start_date, end_date, attempt) ==
    [pc |-> "start", attempt |-> attempt, client_id |-> client_id,
     days |-> days, start_date |-> start_date, end_date |-> end_date,
     origin |-> origin, ev |-> "none"]

\* HTTP responses of the two handlers
NoResponse == [handler |-> "none", code |-> 0]
Response(handler, code) == [handler |-> handler, code |-> code]

\* tasks and requests in flight are bags: two of them can be in the same state
Running == BagToSet(tasks)
Pending == BagToSet(reqs)
Replace(bag, x, y) == (bag (-) SetToBag({x})) (+) SetToBag({y})
Remove(bag, x) == bag (-) SetToBag({x})
Add(bag, x) == bag (+) SetToBag({x})

\* no date range request and no reconciliation is under way
NoDateRange ==
    [pc |-> "idle", days |-> 0, start_date |-> "None", end_date |-> "None",
     now |-> 0, request |-> "none", range |-> NoRange]

NoReconcile ==
    [pc |-> "idle", df_backend |-> <<>>, df_ga4 |-> <<>>,
     summary |-> NoReconcileSummary]

\* no adapter is fetching
NoFetch ==
    [pc |-> "idle", provider |-> "none", page |-> 0, requests |-> 0,
     ga4_rows |-> 0, orders |-> 0, more |-> FALSE, warned |-> FALSE,
     result |-> [kind |-> "none", code |-> None]]

\* the adapters and the notification leaves at rest
NoMail ==
    [pc |-> "idle", table |-> <<>>, users |-> <<>>, next |-> 0,
     attempted |-> {}, failed |-> {}, looked_up |-> FALSE]
NoSignature ==
    [pc |-> "idle", secret |-> "None", payload_json |-> <<>>,
     headers |-> << >>, posted |-> FALSE, content |-> <<>>]
NoCache ==
    [pc |-> "idle", enabled |-> FALSE, now |-> 0, store |-> << >>,
     client |-> 0, key |-> << >>, table |-> [owner |-> 0, provider |-> "none"],
     calls |-> 0]
NoFrame == [pc |-> "idle", rows |-> << >>, job_id |-> 0]

LeavesAtRest ==
    /\ fetch = NoFetch
    /\ mail = NoMail
    /\ sig = NoSignature
    /\ cache = NoCache
    /\ frame = NoFrame

\* the webhook dispatcher at rest
WebhooksAtRest ==
    /\ webhooks = ConfiguredWebhooks(0)
    /\ deliveries = EmptyBag
    /\ posts = EmptyBag
    /\ cycles = [c \in CycleIds |-> IdleCycle]

\* no job exists and nothing is running
JobsAtRest ==
    /\ job = NoJob
    /\ tasks = EmptyBag
    /\ reqs = EmptyBag
    /\ resp = NoResponse
    /\ runChain = NoChain

(* ---------------------------------------------------------------------- *)
(* Initial state: no job has been created, nothing is running              *)
(* ---------------------------------------------------------------------- *)
Init ==
    /\ job = NoJob
    /\ tasks = EmptyBag
    /\ reqs = EmptyBag
    /\ resp = NoResponse
    /\ runChain = NoChain
    /\ WebhooksAtRest
    /\ dr = NoDateRange
    /\ rec = NoReconcile
    /\ LeavesAtRest

(* ---------------------------------------------------------------------- *)
(* run_job: POST /run/{client_id}                                          *)
(* ---------------------------------------------------------------------- *)
RunJob(client_id, config) ==
    /\ job.status = ABSENT
    /\ IF client_id \notin ExistingClients
       THEN /\ resp' = Response("run_job", 404)
            /\ UNCHANGED <<job, tasks, reqs, runChain>>
       ELSE /\ job' = NewJob(client_id, config)
            /\ tasks' = Add(tasks, NewTask("run", client_id, job'.days,
                                           job'.start_date, job'.end_date,
                                           FirstAttempt))
            /\ runChain' = [NoChain EXCEPT !.only503 = TRUE]
            /\ resp' = Response("run_job", 200)
            /\ UNCHANGED reqs

(* ---------------------------------------------------------------------- *)
(* execute_reconciliation, one attempt                                     *)
(* ---------------------------------------------------------------------- *)
\* a variant that sleeps and recurses whatever was committed
AfterErrorWriteAlwaysSleeps(x, j) ==
    [x EXCEPT !.pc = "sleep", !.ev = "none"]

\* where the task goes after the commit of an except APIError / except
\* Exception block: backoff and recursion, or the job.failed notifications
AfterErrorWrite(x, j) ==
    [x EXCEPT !.pc = IF j.status = RETRYING THEN "sleep" ELSE "notify",
              !.ev = IF j.status = RETRYING THEN "none" ELSE JOB_FAILED]

\* the chain started by run_job has returned or an error has left it
ChainAfterEnd(x) == IF x.origin = "run" THEN NoChain ELSE runChain

\* entry: open the session, load the job, notify_job_started (outside try)
TaskStart(x) ==
    /\ x \in Running
    /\ x.pc = "start"
    /\ \E raised \in NotifyEndings :
         IF raised
         THEN /\ tasks' = Remove(tasks, x)
              /\ runChain' = ChainAfterEnd(x)
         ELSE /\ tasks' = Replace(tasks, x, [x EXCEPT !.pc = "body"])
              /\ runChain' = IF x.origin = "run"
                             THEN [runChain EXCEPT !.execs = @ + 1,
                                                   !.started = @ + 1]
                             ELSE runChain
    /\ UNCHANGED <<job, reqs, resp>>

\* the try block ending with outcome eff, up to the commit it leads to
TaskBodyEnds(x, eff) ==
    LET n == x.attempt
        seen503 == IF x.origin = "run"
                   THEN [runChain EXCEPT !.only503 =
                           @ /\ eff = [kind |-> "APIError", code |-> 503]]
                   ELSE runChain
    IN
    /\ x \in Running
    /\ x.pc = "body"
    /\ CASE eff.kind = "missing" ->
              /\ job' = WriteMissingConnectors(job)
              /\ tasks' = Remove(tasks, x)
              /\ runChain' = ChainAfterEnd(x)
         [] eff.kind = "ok" ->
              /\ job' = WriteCompleted(job, x.days)
              /\ tasks' = Replace(tasks, x,
                             [x EXCEPT !.pc = "notify", !.ev = JOB_COMPLETED])
              /\ runChain' = seen503
         [] eff.kind \in {"ConfigurationError", "DataValidationError"} ->
              /\ job' = WriteNonRetryable(job, eff)
              /\ tasks' = Replace(tasks, x,
                             [x EXCEPT !.pc = "notify", !.ev = JOB_FAILED])
              /\ runChain' = seen503
         [] eff.kind = "APIError" ->
              /\ job' = WriteAPIError(job, eff, n)
              /\ tasks' = Replace(tasks, x, AfterErrorWrite(x, job'))
              /\ runChain' = seen503
         [] eff.kind = "Exception" ->
              /\ job' = WriteUnexpected(job, eff, n)
              /\ tasks' = Replace(tasks, x, AfterErrorWrite(x, job'))
              /\ runChain' = seen503
    /\ UNCHANGED <<reqs, resp>>

TaskBody(x) == \E eff \in EffectiveOutcomes : TaskBodyEnds(x, eff)

\* await asyncio.sleep(backoff_seconds); await execute_reconciliation(..., attempt + 1)
TaskSleep(x) ==
    /\ x \in Running
    /\ x.pc = "sleep"
    /\ tasks' = Replace(tasks, x, [x EXCEPT !.pc = "start", !.attempt = @ + 1])
    /\ runChain' = IF x.origin = "run"
                   THEN [runChain EXCEPT !.sleeps =
                           Append(@, BackoffSeconds(x.attempt))]
                   ELSE runChain
    /\ UNCHANGED <<job, reqs, resp>>

\* notify_job_completed (inside the try block) / notify_job_failed (inside
\* an except block) after the terminal commit, returning or raising
TaskNotifyEnds(x, raised) ==
    /\ x \in Running
    /\ x.pc = "notify"
    /\ IF ~raised
       THEN /\ tasks' = Replace(tasks, x, [x EXCEPT !.pc = "email"])
            /\ UNCHANGED <<job, runChain>>
       ELSE IF x.ev = JOB_COMPLETED
            THEN /\ job' = WriteUnexpected(job, WebhookStoreError, x.attempt)
                 /\ tasks' = Replace(tasks, x, AfterErrorWrite(x, job'))
                 /\ UNCHANGED runChain
            ELSE /\ tasks' = Remove(tasks, x)
                 /\ runChain' = ChainAfterEnd(x)
                 /\ UNCHANGED job
    /\ UNCHANGED <<reqs, resp>>

TaskNotify(x) == \E raised \in NotifyEndings : TaskNotifyEnds(x, raised)

\* _send_job_notification: every error is caught inside it
TaskEmail(x) ==
    /\ x \in Running
    /\ x.pc = "email"
    /\ tasks' = Remove(tasks, x)
    /\ runChain' = ChainAfterEnd(x)
    /\ UNCHANGED <<job, reqs, resp>>

(* ---------------------------------------------------------------------- *)
(* retry_job: POST /{job_id}/retry                                         *)
(* ---------------------------------------------------------------------- *)
\* the request is refused on what db.get returned; no write follows
RetryJobReject ==
    /\ \/ /\ job.status = ABSENT
          /\ resp' = Response("retry_job", 404)
       \/ /\ job.status # ABSENT
          /\ \/ job.status # FAILED
             \/ ~CanRetry(job.status, job.retry_count, job.max_retries)
          /\ resp' = Response("retry_job", 400)
    /\ UNCHANGED <<job, tasks, reqs, runChain>>

\* db.get returned a job that passes both checks; the handler holds that copy
RetryJobRead ==
    /\ BagCardinality(reqs) < MaxReqs
    /\ job.status = FAILED
    /\ CanRetry(job.status, job.retry_count, job.max_retries)
    /\ reqs' = Add(reqs, [retry_count |-> job.retry_count])
    /\ UNCHANGED <<job, tasks, resp, runChain>>

\* job.status = RUNNING; job.retry_count += 1; commit; refresh; add_task
RetryJobCommit(q) ==
    /\ q \in Pending
    /\ BagCardinality(tasks) < MaxTasks
    /\ job' = WriteManualRetry(job, q.retry_count)
    /\ tasks' = Add(tasks, NewTask("manual", job'.client_id, job'.days,
                                   job'.start_date, job'.end_date,
                                   job'.retry_count))
    /\ reqs' = Remove(reqs, q)
    /\ resp' = Response("retry_job", 200)
    /\ UNCHANGED runChain

\* the orchestrator's steps leave the other parts of the model alone
OthersUnchanged == UNCHANGED <<webhookVars, dr, rec, leafVars>>

Next ==
    \/ \E c \in ClientIds, config \in Configs :
          RunJob(c, config) /\ OthersUnchanged
    \/ \E x \in Running : TaskStart(x) /\ OthersUnchanged
    \/ \E x \in Running : TaskBody(x) /\ OthersUnchanged
    \/ \E x \in Running : TaskSleep(x) /\ OthersUnchanged
    \/ \E x \in Running : TaskNotify(x) /\ OthersUnchanged
    \/ \E x \in Running : TaskEmail(x) /\ OthersUnchanged
    \/ RetryJobReject /\ OthersUnchanged
    \/ RetryJobRead /\ OthersUnchanged
    \/ \E q \in Pending : RetryJobCommit(q) /\ OthersUnchanged

Spec == Init /\ [][Next]_vars

\* the orchestrator when retry_job requests arrive one after the other: a
\* request is read only when no other is between its read and its commit
SeqNext ==
    \/ \E c \in ClientIds, config \in Configs :
          RunJob(c, config) /\ OthersUnchanged
    \/ \E x \in Running : TaskStart(x) /\ OthersUnchanged
    \/ \E x \in Running : TaskBody(x) /\ OthersUnchanged
    \/ \E x \in Running : TaskSleep(x) /\ OthersUnchanged
    \/ \E x \in Running : TaskNotify(x) /\ OthersUnchanged
    \/ \E x \in Running : TaskEmail(x) /\ OthersUnchanged
    \/ RetryJobReject /\ OthersUnchanged
    \/ reqs = EmptyBag /\ RetryJobRead /\ OthersUnchanged
    \/ \E q \in Pending : RetryJobCommit(q) /\ OthersUnchanged

SeqSpec == Init /\ [][SeqNext]_vars

\* a step of a background task: every call it awaits returns or raises, and
\* every sleep elapses
TaskStep ==
    \E x \in Running :
        (TaskStart(x) \/ TaskBody(x) \/ TaskSleep(x) \/ TaskNotify(x)
            \/ TaskEmail(x)) /\ OthersUnchanged

\* a retry_job handler that has read the job goes on to its commit
RetryStep == \E q \in Pending : RetryJobCommit(q) /\ OthersUnchanged

\* the orchestrator with its tasks and handlers scheduled fairly
FairSpec == Spec /\ WF_vars(TaskStep) /\ WF_vars(RetryStep)

(* ====================================================================== *)
(* The webhook dispatcher: WebhookService (core/webhooks.py) and the       *)
(* update and test endpoints (api/v1/endpoints/webhooks.py)                *)
(* ====================================================================== *)
\* the rows of a query in primary key order
RECURSIVE InIdOrder(_)
InIdOrder(S) ==
    IF S = {} THEN <<>>
    ELSE LET m == CHOOSE x \in S : \A y \in S : x <= y
         IN <<m>> \o InIdOrder(S \ {m})

\* not w.events or event_str in w.events
Subscribed(webhook, event) ==
    webhook.events = {} \/ event \in webhook.events

\* notify: the ACTIVE webhooks of the client that subscribe to the event
Matching(store, client_id, event) ==
    { w \in WebhookIds :
        /\ store[w].client_id = client_id
        /\ store[w].status = ACTIVE
        /\ Subscribed(store[w], event) }

\* _log_delivery_failure: failure_count += 1; FAILED from the threshold on
LogDeliveryFailure(webhook) ==
    LET n == webhook.failure_count + 1
    IN [webhook EXCEPT !.failure_count = n,
                       !.status = IF n >= FailureThreshold THEN FAILED ELSE @]

\* _send_webhook: the webhook object of the session after client.post ended
\* with outcome
AfterSend(webhook, outcome) ==
    CASE outcome = "2xx" -> [webhook EXCEPT !.failure_count = 0]
      [] outcome = "non2xx" -> [webhook EXCEPT !.failure_count = @ + 1]
      [] OTHER -> LogDeliveryFailure(webhook)

\* db.commit(): the UPDATE sets the attributes whose value changed in the
\* session, whatever the row holds by now
Flush(stored, loaded, changed) ==
    [stored EXCEPT
       !.failure_count = IF changed.failure_count # loaded.failure_count
                         THEN changed.failure_count ELSE @,
       !.status = IF changed.status # loaded.status
                  THEN changed.status ELSE @]

\* a variant that records the attempt twice
DeliveryRowsTwice(webhook_id, job_id, event, outcome) ==
    LET row == [webhook_id |-> webhook_id, job_id |-> job_id, event |-> event,
                success |-> outcome = "2xx",
                has_status_code |-> outcome \in {"2xx", "non2xx"}]
    IN SetToBag({row}) (+) SetToBag({row})

\* the WebhookDelivery rows _send_webhook adds for one call
DeliveryRows(webhook_id, job_id, event, outcome) ==
    SetToBag({ [webhook_id |-> webhook_id, job_id |-> job_id, event |-> event,
                success |-> outcome = "2xx",
                has_status_code |-> outcome \in {"2xx", "non2xx"}] })

\* the HTTP request one call sends
Post(webhook_id, job_id, event) ==
    [webhook_id |-> webhook_id, job_id |-> job_id, event |-> event]

\* notify, up to the loop: load the webhooks; a store error escapes
Notify(c, client_id, event, load_ok) ==
    LET matching == Matching(webhooks, client_id, event) IN
    /\ cycles[c].pc = "idle"
    /\ \A b \in CycleIds : b < c => cycles[b].pc # "idle"
    /\ cycles' = [cycles EXCEPT ![c] =
          IF ~load_ok
          THEN [IdleCycle EXCEPT !.pc = "raised", !.client_id = client_id,
                                 !.event = event]
          ELSE IF matching = {}
          THEN [IdleCycle EXCEPT !.pc = "done", !.client_id = client_id,
                                 !.event = event]
          ELSE [pc |-> "sending", client_id |-> client_id, event |-> event,
                matching |-> matching, todo |-> InIdOrder(matching),
                snap |-> [w \in matching |-> webhooks[w]]]]
    /\ UNCHANGED <<webhooks, deliveries, posts>>

\* one turn of the loop of notify: _send_webhook for the next webhook.  A
\* commit that raises is caught by except Exception, whose commit in
\* _log_delivery_failure raises in turn and leaves notify.
SendWebhook(c, outcome, commit_ok) ==
    LET cy == cycles[c]
        w == Head(cy.todo)
    IN
    /\ cy.pc = "sending"
    /\ BagCardinality(posts) < MaxDeliveries
    /\ posts' = Add(posts, Post(w, c, cy.event))
    /\ IF commit_ok
       THEN /\ deliveries' = deliveries (+) DeliveryRows(w, c, cy.event, outcome)
            /\ webhooks' = [webhooks EXCEPT ![w] =
                              Flush(@, cy.snap[w], AfterSend(cy.snap[w], outcome))]
            /\ cycles' = [cycles EXCEPT ![c] =
                  IF Tail(cy.todo) = <<>>
                  THEN [cy EXCEPT !.pc = "done", !.todo = <<>>, !.snap = <<>>]
                  ELSE [cy EXCEPT !.todo = Tail(@)]]
       ELSE /\ cycles' = [cycles EXCEPT ![c] =
                  [cy EXCEPT !.pc = "raised", !.todo = <<>>, !.snap = <<>>]]
            /\ UNCHANGED <<webhooks, deliveries>>

\* POST /{webhook_id}/test: 404 when the client has no such webhook; else
\* _send_webhook on the row as it is, whatever its status, with a job of id 0
\* and the event job.completed
TestWebhook(client_id, w, outcome, commit_ok) ==
    IF webhooks[w].client_id # client_id
    THEN UNCHANGED <<webhooks, deliveries, posts, cycles>>
    ELSE /\ BagCardinality(posts) < MaxDeliveries
         /\ posts' = Add(posts, Post(w, TestJobId, JOB_COMPLETED))
         /\ IF commit_ok
            THEN /\ deliveries' = deliveries (+)
                       DeliveryRows(w, TestJobId, JOB_COMPLETED, outcome)
                 /\ webhooks' = [webhooks EXCEPT ![w] =
                                   Flush(@, @, AfterSend(@, outcome))]
            ELSE UNCHANGED <<webhooks, deliveries>>
         /\ UNCHANGED cycles

\* PUT /{webhook_id}: 404 / 400 change nothing; else events and status when
\* given; reactivating resets failure_count
UpdateWebhook(client_id, w, upd) ==
    /\ IF webhooks[w].client_id # client_id
       THEN UNCHANGED webhooks
       ELSE IF upd.set_events /\ ~(upd.events \subseteq WebhookEvents)
       THEN UNCHANGED webhooks
       ELSE webhooks' = [webhooks EXCEPT
                  ![w].events = IF upd.set_events THEN upd.events ELSE @,
                  ![w].status = IF upd.status # "None" THEN upd.status ELSE @,
                  ![w].failure_count = IF upd.status = ACTIVE THEN 0 ELSE @]
    /\ UNCHANGED <<deliveries, posts, cycles>>

WebhookInit ==
    /\ JobsAtRest
    /\ \E failure_count \in InitialFailureCounts :
          webhooks = ConfiguredWebhooks(failure_count)
    /\ deliveries = EmptyBag
    /\ posts = EmptyBag
    /\ cycles = [c \in CycleIds |-> IdleCycle]
    /\ dr = NoDateRange
    /\ rec = NoReconcile
    /\ LeavesAtRest

WebhookNext ==
    \/ \E c \in CycleIds, call \in NotifyCalls, load_ok \in BOOLEAN :
          Notify(c, call[1], call[2], load_ok) /\ UNCHANGED <<jobVars, dr, rec, leafVars>>
    \/ \E c \in CycleIds, outcome \in HttpOutcomes, commit_ok \in BOOLEAN :
          SendWebhook(c, outcome, commit_ok) /\ UNCHANGED <<jobVars, dr, rec, leafVars>>
    \/ \E call \in EndpointCalls, outcome \in HttpOutcomes,
          commit_ok \in BOOLEAN :
          TestWebhook(call[1], call[2], outcome, commit_ok)
             /\ UNCHANGED <<jobVars, dr, rec, leafVars>>
    \/ \E call \in EndpointCalls, upd \in WebhookUpdates :
          UpdateWebhook(call[1], call[2], upd) /\ UNCHANGED <<jobVars, dr, rec, leafVars>>

WebhookSpec == WebhookInit /\ [][WebhookNext]_vars

(* ====================================================================== *)
(* One date range, validated by the request schema (schemas/job.py) and    *)
(* resolved by the ingestor (core/ingestors/base.py) at the same instant   *)
(* ====================================================================== *)
\* the request body is validated when run_job receives it
SubmitJobConfig ==
    /\ dr.pc = "input"
    /\ dr' = [dr EXCEPT
          !.pc = "submitted",
          !.request = IF JobConfigAccepts(dr.days, dr.start_date, dr.end_date,
                                          dr.now \div SecondsPerDay)
                      THEN "accepted" ELSE "rejected"]
    /\ UNCHANGED <<jobVars, webhookVars, rec, leafVars>>

\* fetch_data resolves the range of the same values
ResolveDateRange ==
    /\ dr.pc = "submitted"
    /\ dr' = [dr EXCEPT
          !.pc = "resolved",
          !.range = GetDateRange(dr.days, dr.start_date, dr.end_date, dr.now)]
    /\ UNCHANGED <<jobVars, webhookVars, rec, leafVars>>

DateInit ==
    /\ JobsAtRest
    /\ WebhooksAtRest
    /\ rec = NoReconcile
    /\ LeavesAtRest
    /\ \E days \in DaysValues, start_date \in DateStrings,
          end_date \in DateStrings, now \in Clocks :
          dr = [pc |-> "input", days |-> days, start_date |-> start_date,
                end_date |-> end_date, now |-> now, request |-> "none",
                range |-> NoRange]

DateNext == SubmitJobConfig \/ ResolveDateRange

DateSpec == DateInit /\ [][DateNext]_vars

(* ====================================================================== *)
(* One reconciliation: the two tables the ingestors returned, then the     *)
(* summary execute_reconciliation computes from them                       *)
(* ====================================================================== *)
Reconcile ==
    /\ rec.pc = "fetched"
    /\ rec' = [rec EXCEPT
          !.pc = "reconciled",
          !.summary = ReconcileSummary(rec.df_backend, rec.df_ga4)]
    /\ UNCHANGED <<jobVars, webhookVars, dr, leafVars>>

ReconcileInit ==
    /\ JobsAtRest
    /\ WebhooksAtRest
    /\ dr = NoDateRange
    /\ LeavesAtRest
    /\ \E df_backend \in DataFrames, df_ga4 \in DataFrames :
          rec = [pc |-> "fetched", df_backend |-> df_backend,
                 df_ga4 |-> df_ga4, summary |-> NoReconcileSummary]

ReconcileNext == Reconcile

ReconcileSpec == ReconcileInit /\ [][ReconcileNext]_vars

(* ====================================================================== *)
(* The source adapters inside one attempt: fetch_data of the GA4, Shopify  *)
(* and WooCommerce ingestors (core/ingestors), called by                   *)
(* execute_reconciliation for a client with one GA4 and one backend        *)
(* connector, with no cached response                                      *)
(* ====================================================================== *)
\* max_pages = 100 (Shopify: while page_count < max_pages)
ShopifyMaxPages == 100
\* max_pages = 100 (WooCommerce: while page <= max_pages)
WooCommerceMaxPages == 100
\* "per_page": 100 / if len(page_orders) < 100
WooCommercePerPage == 100
HttpOk == 200

BackendProviders == {"shopify", "woocommerce"}

\* orders on one page of a provider
PageSizes(provider) ==
    IF provider = "shopify" THEN {0, 1} ELSE {0, 1, WooCommercePerPage}

\* what one client.get ends with: an exception of the HTTP client (a timeout
\* among them; status None), an error status, or a page of orders, for
\* Shopify with or without a Link header that has rel="next"
PageResponses(provider) ==
    { [status |-> st, orders |-> 0, next |-> FALSE] :
         st \in {None, 401, RateLimited, 503} }
    \cup
    { [status |-> HttpOk, orders |-> n, next |-> nx] :
         n \in PageSizes(provider),
         nx \in (IF provider = "shopify" THEN BOOLEAN ELSE {FALSE}) }

\* what client.run_report ends with
GA4Responses == {"exception", "error", "rows", "no_rows"}
\* rows of a GA4 report that has rows
GA4ReportRows == 2

FetchOk == [kind |-> "ok", code |-> None]

\* a variant that lets a table without columns through
ValidateDataFrameLenient(records) == FetchOk

\* df = pd.DataFrame(orders); _validate_dataframe(df, REQUIRED_COLUMNS): a
\* frame built from no record has no column
ValidateDataFrame(records) ==
    IF records = 0
    THEN [kind |-> "DataValidationError", code |-> None]
    ELSE FetchOk

\* raise APIError(..., status_code=code); None when the error is raised
\* without a status code (except Exception: raise APIError(...) from e)
RaiseAPIError(f, code) ==
    [f EXCEPT !.pc = "raised", !.more = FALSE,
              !.result = [kind |-> "APIError", code |-> code]]

\* after the loop: the warning, the DataFrame and its validation
AfterLoop(f, max_pages) ==
    LET v == ValidateDataFrame(f.orders)
    IN [f EXCEPT !.warned = f.page >= max_pages,
                 !.pc = IF v.kind = "ok" THEN "returned" ELSE "raised",
                 !.result = v]

\* while page_count < max_pages
ShopifyContinues(page_count) == page_count < ShopifyMaxPages

\* a variant that admits one page more
WooCommerceContinuesOneMore(page) == page <= WooCommerceMaxPages + 1

\* while page <= max_pages
WooCommerceContinues(page) == page <= WooCommerceMaxPages

\* one turn of the loop of ShopifyIngestor.fetch_data with response r
ShopifyPage(f, r) ==
    LET g == [f EXCEPT !.page = @ + 1, !.requests = @ + 1] IN
    IF r.status = None THEN RaiseAPIError(g, None)
    ELSE IF r.status # HttpOk THEN RaiseAPIError(g, r.status)
    ELSE IF r.orders = 0
         THEN AfterLoop([g EXCEPT !.more = FALSE], ShopifyMaxPages)
         ELSE LET h == [g EXCEPT !.orders = @ + r.orders, !.more = r.next]
              IN IF r.next /\ ShopifyContinues(h.page)
                 THEN h
                 ELSE AfterLoop(h, ShopifyMaxPages)

\* one turn of the loop of WooCommerceIngestor.fetch_data with response r
WooCommercePage(f, r) ==
    LET g == [f EXCEPT !.requests = @ + 1] IN
    IF r.status = None THEN RaiseAPIError(g, None)
    ELSE IF r.status # HttpOk THEN RaiseAPIError(g, r.status)
    ELSE IF r.orders = 0
         THEN AfterLoop([g EXCEPT !.more = FALSE], WooCommerceMaxPages)
         ELSE LET h == [g EXCEPT !.orders = @ + r.orders] IN
              IF r.orders < WooCommercePerPage
              THEN AfterLoop([h EXCEPT !.more = FALSE], WooCommerceMaxPages)
              ELSE LET k == [h EXCEPT !.page = @ + 1, !.more = TRUE]
                   IN IF WooCommerceContinues(k.page)
                      THEN k
                      ELSE AfterLoop(k, WooCommerceMaxPages)

\* GA4Ingestor.fetch_data with response r, up to the backend fetch
GA4Fetch(f, r) ==
    IF r \in {"exception", "error"} THEN RaiseAPIError(f, None)
    ELSE LET rows == IF r = "rows" THEN GA4ReportRows ELSE 0
             v == ValidateDataFrame(rows)
         IN IF v.kind = "ok"
            THEN [f EXCEPT !.ga4_rows = rows, !.pc = "paging",
                           !.page = IF f.provider = "woocommerce" THEN 1 ELSE 0]
            ELSE [f EXCEPT !.pc = "raised", !.result = v]

\* the try block begins: the connector query and loop come first
StartFetch(provider) ==
    [NoFetch EXCEPT !.pc = "connectors", !.provider = provider]

\* entry of an attempt, then the try block if notify_job_started returned
FetchTaskStart(x) ==
    /\ TaskStart(x)
    /\ fetch' = IF \E y \in BagToSet(tasks') : y.pc = "body"
                THEN StartFetch(fetch.provider)
                ELSE [NoFetch EXCEPT !.provider = fetch.provider]

\* the connector loop: decrypt_config / json.loads / the ingestor
\* constructors return, or one of them raises an unclassified error
LoadConnectors(x, ok) ==
    /\ x \in Running /\ x.pc = "body"
    /\ fetch.pc = "connectors"
    /\ IF ok
       THEN /\ fetch' = [fetch EXCEPT !.pc = "ga4"]
            /\ UNCHANGED jobVars
       ELSE /\ fetch' = [fetch EXCEPT !.pc = "raised",
                           !.result = [kind |-> "Exception", code |-> None]]
            /\ TaskBodyEnds(x, fetch'.result)

\* df_ga4 = await ga4_ingestor.fetch_data(...)
FetchGA4(x, r) ==
    /\ x \in Running /\ x.pc = "body"
    /\ fetch.pc = "ga4"
    /\ fetch' = GA4Fetch(fetch, r)
    /\ IF fetch'.pc = "paging"
       THEN UNCHANGED jobVars
       ELSE TaskBodyEnds(x, fetch'.result)

\* df_backend = await backend_ingestor.fetch_data(...), one request at a
\* time; when it returns the attempt reconciles and commits COMPLETED
FetchBackendPage(x, r) ==
    /\ x \in Running /\ x.pc = "body"
    /\ fetch.pc = "paging"
    /\ fetch' = IF fetch.provider = "shopify"
                THEN ShopifyPage(fetch, r)
                ELSE WooCommercePage(fetch, r)
    /\ IF fetch'.pc = "paging"
       THEN UNCHANGED jobVars
       ELSE TaskBodyEnds(x, fetch'.result)

\* the max_retries values run_job is called with
FetchConfigs ==
    { c \in JobConfigs : c.max_retries \in 0..2 /\ c.days = DefaultDays }

\* run_job has created the job and added its task
FetchInit ==
    /\ \E config \in FetchConfigs :
          /\ job = NewJob(1, config)
          /\ tasks = SetToBag({NewTask("run", 1, job.days, job.start_date,
                                       job.end_date, FirstAttempt)})
    /\ reqs = EmptyBag
    /\ resp = Response("run_job", 200)
    /\ runChain = [NoChain EXCEPT !.only503 = TRUE]
    /\ WebhooksAtRest
    /\ dr = NoDateRange
    /\ rec = NoReconcile
    /\ \E provider \in BackendProviders :
          fetch = [NoFetch EXCEPT !.provider = provider]
    /\ mail = NoMail
    /\ sig = NoSignature
    /\ cache = NoCache
    /\ frame = NoFrame

aroundFetch == <<webhookVars, dr, rec, mail, sig, cache, frame>>

FetchNext ==
    \/ \E x \in Running : FetchTaskStart(x) /\ UNCHANGED aroundFetch
    \/ \E x \in Running, ok \in BOOLEAN :
          LoadConnectors(x, ok) /\ UNCHANGED aroundFetch
    \/ \E x \in Running, r \in GA4Responses :
          FetchGA4(x, r) /\ UNCHANGED aroundFetch
    \/ \E x \in Running, r \in PageResponses(fetch.provider) :
          FetchBackendPage(x, r) /\ UNCHANGED aroundFetch
    \/ \E x \in Running : TaskSleep(x) /\ UNCHANGED <<aroundFetch, fetch>>
    \/ \E x \in Running : TaskNotify(x) /\ UNCHANGED <<aroundFetch, fetch>>
    \/ \E x \in Running : TaskEmail(x) /\ UNCHANGED <<aroundFetch, fetch>>

FetchSpec == FetchInit /\ [][FetchNext]_vars

(* ====================================================================== *)
(* The email notifier: _send_job_notification                              *)
(* ====================================================================== *)
\* rows of the user_clients table in the model
MaxUsers == 2

INVITED == "invited"
UserRows ==
    [client_id : ClientIds, status : {ACTIVE, INVITED}, has_email : BOOLEAN]

UserTables == UNION { [1..n -> UserRows] : n \in 0..MaxUsers }

\* select(UserClient).where(client_id == client_id).where(status == "active")
ActiveUsers(table, client_id) ==
    InIdOrder({ u \in DOMAIN table :
                  table[u].client_id = client_id /\ table[u].status = ACTIVE })

\* if success and summary: ... elif not success: ...
SendsMail(success, summary) == (success /\ ~summary.null) \/ ~success

SendOutcomes == {"sent", "EmailServiceError"}

\* a variant in which an error of one send leaves the loop
AfterRecipientStopsOnError(m, outcome) ==
    IF outcome = "sent" /\ m.next < Len(m.users)
    THEN [m EXCEPT !.next = @ + 1]
    ELSE [m EXCEPT !.pc = "done"]

\* except Exception as e: logger.error(...), then the next user of the loop
AfterRecipient(m, outcome) ==
    IF m.next < Len(m.users)
    THEN [m EXCEPT !.next = @ + 1]
    ELSE [m EXCEPT !.pc = "done"]

\* the two queries, returning or raising into the outer except
MailLookup(x, ok) ==
    /\ x \in Running
    /\ x.pc = "email"
    /\ mail.pc = "lookup"
    /\ LET users == ActiveUsers(mail.table, x.client_id)
       IN mail' = IF ~ok THEN [mail EXCEPT !.pc = "done"]
                  ELSE IF users = <<>>
                       THEN [mail EXCEPT !.pc = "done", !.looked_up = TRUE]
                       ELSE [mail EXCEPT !.pc = "sending", !.users = users,
                                         !.next = 1, !.looked_up = TRUE]
    /\ UNCHANGED jobVars

\* one turn of the loop over the users
MailSend(x, outcome) ==
    LET u == mail.users[mail.next]
        success == x.ev = JOB_COMPLETED
    IN
    /\ x \in Running
    /\ x.pc = "email"
    /\ mail.pc = "sending"
    /\ IF ~mail.table[u].has_email \/ ~SendsMail(success, job.result_summary)
       THEN mail' = AfterRecipient(mail, "sent")
       ELSE mail' = AfterRecipient(
                       [mail EXCEPT !.attempted = @ \cup {u},
                                    !.failed = IF outcome = "sent" THEN @
                                               ELSE @ \cup {u}],
                       outcome)
    /\ UNCHANGED jobVars

\* _send_job_notification returns and the attempt ends
MailReturn(x) ==
    /\ mail.pc = "done"
    /\ TaskEmail(x)
    /\ mail' = [mail EXCEPT !.pc = "returned"]

\* a terminal status has been committed, its webhooks have been notified
MailInit ==
    /\ \E success \in BOOLEAN :
          LET j == NewJob(1, NoConfig)
          IN /\ job = IF success THEN WriteCompleted(j, j.days)
                      ELSE WriteNonRetryable(j,
                             [kind |-> "DataValidationError", code |-> None])
             /\ tasks = SetToBag({
                  [NewTask("run", 1, j.days, j.start_date, j.end_date,
                           FirstAttempt)
                     EXCEPT !.pc = "email",
                            !.ev = IF success THEN JOB_COMPLETED
                                   ELSE JOB_FAILED]})
    /\ reqs = EmptyBag
    /\ resp = Response("run_job", 200)
    /\ runChain = [NoChain EXCEPT !.execs = 1, !.started = 1]
    /\ WebhooksAtRest
    /\ dr = NoDateRange
    /\ rec = NoReconcile
    /\ fetch = NoFetch
    /\ \E table \in UserTables :
          mail = [NoMail EXCEPT !.pc = "lookup", !.table = table]
    /\ sig = NoSignature
    /\ cache = NoCache
    /\ frame = NoFrame

aroundMail == <<webhookVars, dr, rec, fetch, sig, cache, frame>>

MailNext ==
    \/ \E x \in Running, ok \in BOOLEAN :
          MailLookup(x, ok) /\ UNCHANGED aroundMail
    \/ \E x \in Running, outcome \in SendOutcomes :
          MailSend(x, outcome) /\ UNCHANGED aroundMail
    \/ \E x \in Running : MailReturn(x) /\ UNCHANGED aroundMail

MailSpec == MailInit /\ [][MailNext]_vars

(* ====================================================================== *)
(* The webhook request: WebhookService._send_webhook, headers and body     *)
(* ====================================================================== *)
\* webhook.secret: null, empty, or a value
Secrets == {"None", "", "s3cr3t", "0ther"}

\* datetime.utcnow() at the time the payload is built
Timestamps == {1, 2}

JobIds == {1, 2}

\* _build_payload (the result / error parts follow the event)
BuildPayload(event, job_id, client_id, now) ==
    [event |-> event, timestamp |-> now,
     data |-> [job_id |-> job_id, client_id |-> client_id,
               status |-> IF event = JOB_STARTED THEN RUNNING
                          ELSE IF event = JOB_COMPLETED THEN COMPLETED
                          ELSE FAILED]]

\* json.dumps(payload, default=str): the text, key by key
JsonDumps(payload) ==
    << <<"event", payload.event>>,
       <<"timestamp", <<"isoformat", payload.timestamp, "Z">> >>,
       <<"data.job_id", <<"int", payload.data.job_id>> >>,
       <<"data.client_id", <<"int", payload.data.client_id>> >>,
       <<"data.status", payload.data.status>> >>

\* str.encode()
Encode(text) == [utf8 |-> text]

\* hmac.new(key, msg, hashlib.sha256)
HmacSha256(key, msg) == [alg |-> "sha256", key |-> key, msg |-> msg]

\* .hexdigest()
HexDigest(mac) == [hex |-> mac]

\* a variant that keys the MAC with the payload
GenerateSignatureSwapped(payload, secret) ==
    HexDigest(HmacSha256(Encode(payload), Encode(secret)))

\* _generate_signature(payload, secret)
GenerateSignature(payload, secret) ==
    HexDigest(HmacSha256(Encode(secret), Encode(payload)))

\* if webhook.secret:
HasSecret(secret) == secret \notin {"None", ""}

BaseHeaders == {"Content-Type", "X-Webhook-Event", "X-Webhook-ID"}

\* the headers of the request
Headers(webhook_id, secret, event, payload_json) ==
    [h \in BaseHeaders \cup (IF HasSecret(secret)
                             THEN {"X-Webhook-Signature"} ELSE {}) |->
        CASE h = "Content-Type" -> <<"application/json">>
          [] h = "X-Webhook-Event" -> <<event>>
          [] h = "X-Webhook-ID" -> <<"str", webhook_id>>
          [] h = "X-Webhook-Signature" ->
                <<"sha256=", GenerateSignature(payload_json, secret)>>]

\* payload, payload_json, headers
BuildRequest(webhook_id, secret, event, job_id, client_id, now) ==
    /\ sig.pc = "idle"
    /\ LET payload_json == JsonDumps(BuildPayload(event, job_id, client_id, now))
       IN sig' = [sig EXCEPT !.pc = "built", !.secret = secret,
                             !.payload_json = payload_json,
                             !.headers = Headers(webhook_id, secret, event,
                                                 payload_json)]

\* client.post(webhook.url, content=payload_json, headers=headers, ...)
PostRequest ==
    /\ sig.pc = "built"
    /\ sig' = [sig EXCEPT !.pc = "posted", !.posted = TRUE,
                          !.content = sig.payload_json]

SignInit ==
    /\ JobsAtRest
    /\ WebhooksAtRest
    /\ dr = NoDateRange
    /\ rec = NoReconcile
    /\ fetch = NoFetch
    /\ mail = NoMail
    /\ sig = NoSignature
    /\ cache = NoCache
    /\ frame = NoFrame

aroundSign == <<jobVars, webhookVars, dr, rec, fetch, mail, cache, frame>>

SignNext ==
    \/ \E w \in WebhookIds, secret \in Secrets, event \in WebhookEvents,
          j \in JobIds, c \in ClientIds, now \in Timestamps :
          BuildRequest(w, secret, event, j, c, now) /\ UNCHANGED aroundSign
    \/ PostRequest /\ UNCHANGED aroundSign

SignSpec == SignInit /\ [][SignNext]_vars

(* ====================================================================== *)
(* The adapter response cache: @cached on fetch_data (core/cache.py)       *)
(* ====================================================================== *)
\* @cached(ttl=600, ...)
AdapterCacheTtl == 600

\* the clock of the model stops after this many steps of AdapterCacheTtl
MaxClockSteps == 2

MaxFetchCalls == 3

\* key_prefix of the three adapters
KeyPrefixes == {"ga4", "shopify", "woocommerce"}

\* hashlib.md5(key_data.encode()).hexdigest()
Md5(key_data) == [md5 |-> key_data]

\* generate_cache_key(*args, **kwargs)
GenerateCacheKey(args, kwargs) == Md5([args |-> args, kwargs |-> kwargs])

\* a variant that keeps self, the adapter with its connector, in the key
CacheArgsWithSelf(args) == args

\* cache_args: the positional arguments without index 0 (skip_args=[0])
CacheArgs(args) == SubSeq(args, 2, Len(args))

\* f"{key_prefix}:{func.__name__}:{key_suffix}"
CacheKey(key_prefix, args, kwargs) ==
    <<key_prefix, "fetch_data", GenerateCacheKey(CacheArgs(args), kwargs)>>

\* the table the provider returns for the connector of one client
ProviderFetch(client_id, provider) ==
    [owner |-> client_id, provider |-> provider]

\* MemoryCache.get: the value, unless absent or expired
CacheGet(store, key, now) ==
    IF key \in DOMAIN store /\ ~(now > store[key].expiry)
    THEN [hit |-> TRUE, value |-> store[key].value]
    ELSE [hit |-> FALSE, value |-> [owner |-> 0, provider |-> "none"]]

\* MemoryCache.set
CacheSet(store, key, value, now, ttl) ==
    [k \in DOMAIN store \cup {key} |->
        IF k = key THEN [value |-> value, expiry |-> now + ttl] ELSE store[k]]

\* MemoryCache.get deletes the entry it found expired
CacheExpire(store, key, now) ==
    IF key \in DOMAIN store /\ now > store[key].expiry
    THEN [k \in DOMAIN store \ {key} |-> store[k]]
    ELSE store

\* adapter.fetch_data(days=days, start_date=start_date, end_date=end_date)
\* for the connector of client_id, through the cached wrapper
CachedFetchData(client_id, provider, days) ==
    LET args == << [connector_of |-> client_id, provider |-> provider] >>
        kwargs == [days |-> days, start_date |-> "None", end_date |-> "None"]
        key == CacheKey(provider, args, kwargs)
        found == CacheGet(cache.store, key, cache.now)
        result == ProviderFetch(client_id, provider)
    IN
    /\ cache.calls < MaxFetchCalls
    /\ cache' =
         IF ~cache.enabled
         THEN [cache EXCEPT !.pc = "returned", !.client = client_id,
                            !.key = key, !.table = result, !.calls = @ + 1]
         ELSE IF found.hit
         THEN [cache EXCEPT !.pc = "returned", !.client = client_id,
                            !.key = key, !.table = found.value,
                            !.calls = @ + 1]
         ELSE [cache EXCEPT !.pc = "returned", !.client = client_id,
                            !.key = key, !.table = result, !.calls = @ + 1,
                            !.store = CacheSet(
                                         CacheExpire(cache.store, key, cache.now),
                                         key, result, cache.now,
                                         AdapterCacheTtl)]

\* time passes
ClockAdvances ==
    /\ cache.now < MaxClockSteps * AdapterCacheTtl
    /\ cache' = [cache EXCEPT !.now = @ + AdapterCacheTtl]

CacheInit ==
    /\ JobsAtRest
    /\ WebhooksAtRest
    /\ dr = NoDateRange
    /\ rec = NoReconcile
    /\ fetch = NoFetch
    /\ mail = NoMail
    /\ sig = NoSignature
    /\ \E enabled \in BOOLEAN : cache = [NoCache EXCEPT !.enabled = enabled]
    /\ frame = NoFrame

aroundCache == <<jobVars, webhookVars, dr, rec, fetch, mail, sig, frame>>

CacheNext ==
    \/ \E c \in ClientIds, provider \in KeyPrefixes, days \in {7, DefaultDays} :
          CachedFetchData(c, provider, days) /\ UNCHANGED aroundCache
    \/ ClockAdvances /\ UNCHANGED aroundCache

CacheSpec == CacheInit /\ [][CacheNext]_vars

(* ====================================================================== *)
(* The jobs table: the rows execute_reconciliation and retry_job write     *)
(* ====================================================================== *)
\* JobModel(...) as run_job stores it: the job's columns and its id
NewJobRow(id, client_id, config) ==
    [f \in DOMAIN NewJob(client_id, config) \cup {"id", "config"} |->
        CASE f = "id" -> id
          [] f = "config" -> config
          [] OTHER -> NewJob(client_id, config)[f]]

\* the commit the try block of attempt n leads to, by the way it ends
AttemptWrite(j, eff, n) ==
    CASE eff.kind = "missing" -> WriteMissingConnectors(j)
      [] eff.kind = "ok" -> WriteCompleted(j, j.days)
      [] eff.kind \in {"ConfigurationError", "DataValidationError"} ->
            WriteNonRetryable(j, eff)
      [] eff.kind = "APIError" -> WriteAPIError(j, eff, n)
      [] eff.kind = "Exception" -> WriteUnexpected(j, eff, n)

\* the attempt numbers a job can be executing with
AttemptsOf(j) ==
    { n \in 1..(MaxMaxRetries + 1) :
        n >= j.retry_count /\ (n = 1 \/ n <= j.max_retries) }

\* job = await db.get(JobModel, job_id); ...; await db.commit()
AttemptCommits(job_id, eff, n) ==
    /\ frame.rows[job_id].status \in {RUNNING, RETRYING}
    /\ n \in AttemptsOf(frame.rows[job_id])
    /\ frame' = [frame EXCEPT !.pc = "attempt", !.job_id = job_id,
                              !.rows[job_id] = AttemptWrite(@, eff, n)]

\* retry_job on job_id, accepted
RetryJobCommits(job_id) ==
    LET j == frame.rows[job_id]
    IN /\ CanRetry(j.status, j.retry_count, j.max_retries)
       /\ frame' = [frame EXCEPT !.pc = "retry_job", !.job_id = job_id,
                                 !.rows[job_id] =
                                    WriteManualRetry(@, @.retry_count)]

\* two jobs, as run_job created them
FrameInit ==
    /\ JobsAtRest
    /\ WebhooksAtRest
    /\ dr = NoDateRange
    /\ rec = NoReconcile
    /\ fetch = NoFetch
    /\ mail = NoMail
    /\ sig = NoSignature
    /\ cache = NoCache
    /\ \E c1 \in FetchConfigs, c2 \in {NoConfig} \cup FetchConfigs :
          frame = [NoFrame EXCEPT
                     !.rows = [id \in JobIds |->
                                 IF id = 1 THEN NewJobRow(1, 1, c1)
                                 ELSE NewJobRow(2, 1, c2)]]

aroundFrame == <<jobVars, webhookVars, dr, rec, fetch, mail, sig, cache>>

FrameNext ==
    \/ \E id \in JobIds, eff \in EffectiveOutcomes, n \in 1..(MaxMaxRetries + 1) :
          AttemptCommits(id, eff, n) /\ UNCHANGED aroundFrame
    \/ \E id \in JobIds : RetryJobCommits(id) /\ UNCHANGED aroundFrame

FrameSpec == FrameInit /\ [][FrameNext]_vars

(* ====================================================================== *)
(* Properties                                                              *)
(* ====================================================================== *)
\* a task in state x takes this step
Moves(x) == x \in Running /\ CopiesIn(x, tasks') < CopiesIn(x, tasks)

\* the task of the chain started by run_job, after its last commit
InTail(x) == x.pc \in {"notify", "email"}

API503 == [kind |-> "APIError", code |-> 503]
API404 == [kind |-> "APIError", code |-> 404]

(* C1 (as amended): with max_retries = 3 and APIError 503 on every attempt,    *)
(* the chain started by run_job has executed exactly 3 attempts with backoff  *)
(* sleeps of 2 and 4 seconds between them when it reaches the job.failed      *)
(* notifications, and the job is FAILED with retry_count = 3.                 *)
C1_RetryArithmetic ==
    \A x \in Running :
        ( /\ x.origin = "run"
          /\ InTail(x)
          /\ runChain.only503
          /\ job.max_retries = 3 )
        => /\ runChain.execs = 3
           /\ runChain.sleeps = <<2, 4>>
           /\ x.ev = JOB_FAILED
           /\ job.status = FAILED
           /\ job.retry_count = 3

C1_Witness ==
    \E x \in Running :
        /\ x.origin = "run"
        /\ x.pc = "email"
        /\ runChain.only503
        /\ job.max_retries = 3
        /\ runChain.execs = 3
        /\ job.status = FAILED

(* C1 as stated: the same, with backoff sleeps of 2, 4 and 8 seconds.          *)
C1_AsStated ==
    \A x \in Running :
        ( /\ x.origin = "run"
          /\ InTail(x)
          /\ runChain.only503
          /\ job.max_retries = 3 )
        => /\ runChain.execs = 3
           /\ runChain.sleeps = <<2, 4, 8>>
           /\ x.ev = JOB_FAILED
           /\ job.status = FAILED
           /\ job.retry_count = 3

NonRetryableOutcomes ==
    { [kind |-> "ConfigurationError", code |-> None],
      [kind |-> "DataValidationError", code |-> None],
      API404 }

(* C2: for every max_retries, an attempt that ends with ConfigurationError,   *)
(* DataValidationError or APIError 404 persists FAILED with that error in     *)
(* logs and goes on to the job.failed notifications without a backoff; from   *)
(* there the task only sends the email or ends, so no further attempt         *)
(* follows; when it was the first attempt of the chain started by run_job,    *)
(* that chain has executed exactly 1 attempt.                                 *)
C2_NonRetryable ==
    [][ \A x \in Running :
          /\ \A eff \in NonRetryableOutcomes :
               TaskBodyEnds(x, eff) =>
                  /\ job'.status = FAILED
                  /\ job'.logs.error = eff
                  /\ tasks' = Replace(tasks, x,
                                [x EXCEPT !.pc = "notify", !.ev = JOB_FAILED])
                  /\ runChain'.sleeps = runChain.sleeps
                  /\ (x.origin = "run" /\ x.attempt = FirstAttempt)
                        => (runChain'.execs = 1 /\ runChain'.sleeps = <<>>)
          /\ (InTail(x) /\ x.ev = JOB_FAILED /\ Moves(x)) =>
                  /\ \/ tasks' = Remove(tasks, x)
                     \/ (x.pc = "notify"
                         /\ tasks' = Replace(tasks, x, [x EXCEPT !.pc = "email"]))
                  /\ job' = job
      ]_vars

C2_Witness ==
    \E x \in Running :
        /\ x.origin = "run"
        /\ x.pc = "email"
        /\ x.ev = JOB_FAILED
        /\ x.attempt = FirstAttempt
        /\ job.max_retries = MaxMaxRetries
        /\ job.status = FAILED
        /\ job.logs.error = API404
        /\ runChain.execs = 1

(* C3: retry_count <= max_retries in every state of the Job row.              *)
C3_RetryCountBounded ==
    job.status # ABSENT => job.retry_count <= job.max_retries

ValidTransitions ==
    { <<RUNNING, COMPLETED>>, <<RUNNING, FAILED>>, <<RUNNING, RETRYING>>,
      <<RETRYING, RUNNING>>, <<RETRYING, FAILED>>, <<FAILED, RUNNING>> }

(* C4: every change of the persisted status away from RETRYING is one of the  *)
(* listed transitions RETRYING->RUNNING and RETRYING->FAILED: a RETRYING job  *)
(* is persisted RUNNING again before it can become COMPLETED.                 *)
C4_StatusTransitions ==
    [][ (job.status = RETRYING /\ job'.status # job.status)
            => <<job.status, job'.status>> \in ValidTransitions
      ]_vars

(* C5: result_summary is non-null if and only if status is COMPLETED.         *)
C5_SummaryIffCompleted ==
    job.status # ABSENT =>
        ((~job.result_summary.null) <=> (job.status = COMPLETED))

(* C6: the chain started by run_job sends job.started exactly once, at        *)
(* attempt 1, and not again on an automatic retry.                            *)
C6_StartedOnce ==
    /\ runChain.started <= 1
    /\ \A x \in Running :
         (x.origin = "run" /\ x.pc # "start") => runChain.started = 1

TerminalStatuses == {COMPLETED, FAILED}

EventOf(status) == IF status = COMPLETED THEN JOB_COMPLETED ELSE JOB_FAILED

(* C7: a step of an attempt that persists COMPLETED or FAILED leaves the task *)
(* at the notification calls for that status (job.completed or job.failed).   *)
C7_TerminalThenNotify ==
    [][ \A x \in Running :
          ( /\ Moves(x)
            /\ job' # job
            /\ job'.status \in TerminalStatuses )
          => \E y \in BagToSet(tasks') :
                /\ tasks' = Replace(tasks, x, y)
                /\ y.pc = "notify"
                /\ y.ev = EventOf(job'.status)
      ]_vars

(* C8: a step of a notification channel, whatever it ends with, leaves the   *)
(* job's status, retry_count and result_summary as they are and is followed  *)
(* by no further attempt: the task goes on to the email or ends.             *)
C8_NotificationIsolated ==
    [][ \A x \in Running :
          (InTail(x) /\ Moves(x)) =>
             /\ job'.status = job.status
             /\ job'.retry_count = job.retry_count
             /\ job'.result_summary = job.result_summary
             /\ \/ tasks' = Remove(tasks, x)
                \/ tasks' = Replace(tasks, x, [x EXCEPT !.pc = "email"])
      ]_vars

Eligible(j) == j.status = FAILED /\ j.retry_count < j.max_retries

(* C9: retry_job goes ahead only on a job it read as FAILED with              *)
(* retry_count < max_retries; going ahead, it persists RUNNING and the read   *)
(* retry_count + 1, changes nothing else of the row and starts exactly one    *)
(* attempt numbered with that retry_count on the stored client_id, days,      *)
(* start_date and end_date; a refusal is an error response on a job that is   *)
(* not eligible, with the row and the tasks unchanged.                        *)
C9_ManualRetry ==
    [][ /\ (BagCardinality(reqs') > BagCardinality(reqs)) =>
              /\ Eligible(job)
              /\ reqs' = Add(reqs, [retry_count |-> job.retry_count])
              /\ job' = job /\ tasks' = tasks
        /\ (BagCardinality(reqs') < BagCardinality(reqs)) =>
              \E q \in Pending :
                 /\ reqs' = Remove(reqs, q)
                 /\ job' = [job EXCEPT !.status = RUNNING,
                                       !.retry_count = q.retry_count + 1]
                 /\ q.retry_count < job.max_retries
                 /\ tasks' = Add(tasks,
                       [pc |-> "start", attempt |-> q.retry_count + 1,
                        client_id |-> job.client_id, days |-> job.days,
                        start_date |-> job.start_date,
                        end_date |-> job.end_date,
                        origin |-> "manual", ev |-> "none"])
                 /\ resp' = Response("retry_job", 200)
        /\ (resp' # resp /\ resp'.handler = "retry_job" /\ resp'.code # 200) =>
              /\ ~Eligible(job)
              /\ job' = job /\ tasks' = tasks /\ reqs' = reqs
      ]_vars

C9_Witness ==
    /\ resp = Response("retry_job", 200)
    /\ job.status = RUNNING
    /\ job.retry_count = 1
    /\ job.days = 7
    /\ \E x \in Running :
         /\ x.origin = "manual" /\ x.pc = "start" /\ x.attempt = 1
         /\ x.days = 7 /\ x.start_date = "2024-01-01"

Executing(x) == x.pc \in {"start", "body", "sleep"}

(* C10: at most one attempt of the job is executing (between its entry and   *)
(* its last commit) at any time.                                              *)
C10_OneAttemptAtATime ==
    \A x \in Running, y \in Running :
        (Executing(x) /\ Executing(y)) => (x = y /\ CopiesIn(x, tasks) = 1)

(* ---------------------------------------------------------------------- *)
(* Webhook dispatcher                                                      *)
(* ---------------------------------------------------------------------- *)
\* the rows of a bag that satisfy a condition on webhook and job
RowsOf(bag, w, j) ==
    LET S == { r \in BagToSet(bag) : r.webhook_id = w /\ r.job_id = j }
    IN BagCardinality([r \in S |-> bag[r]])

FailedRowsOf(bag, w, j) ==
    LET S == { r \in BagToSet(bag) :
                 r.webhook_id = w /\ r.job_id = j /\ ~r.success }
    IN BagCardinality([r \in S |-> bag[r]])

(* C11: a webhook with failure_count >= 10 has status FAILED, whatever kind  *)
(* of failed delivery brought it there, and a change of status back to      *)
(* ACTIVE leaves failure_count at 0.                                          *)
C11_CircuitBreaker ==
    [][ \A w \in WebhookIds :
          /\ webhooks'[w].failure_count >= FailureThreshold
                => webhooks'[w].status = FAILED
          /\ (webhooks[w].status # ACTIVE /\ webhooks'[w].status = ACTIVE)
                => webhooks'[w].failure_count = 0
      ]_vars

(* C12: every HTTP request is sent to a webhook that is ACTIVE when the      *)
(* operation sending it looked the webhook up; a request of a notify call   *)
(* goes to a webhook of the job's client whose events are empty or contain  *)
(* the fired event; the test hook sends nothing to a FAILED or INACTIVE     *)
(* webhook.                                                                  *)
C12_OnlyActiveWebhooks ==
    [][ \A p \in BagToSet(posts') :
          CopiesIn(p, posts') > CopiesIn(p, posts) =>
             IF p.job_id = TestJobId
             THEN webhooks[p.webhook_id].status = ACTIVE
             ELSE LET cy == cycles[p.job_id]
                      loaded == cy.snap[p.webhook_id]
                  IN /\ loaded.status = ACTIVE
                     /\ loaded.client_id = cy.client_id
                     /\ Subscribed(loaded, cy.event)
                     /\ p.event = cy.event
      ]_vars

(* C13: with deliveries made by the notify calls of different jobs only, a   *)
(* failed delivery made while the stored failure_count has only grown since *)
(* its call loaded the webhook (other deliveries failed meanwhile, none     *)
(* succeeded) adds exactly 1 to the stored failure_count: no concurrent     *)
(* increment is lost.                                                        *)
C13_NoLostIncrement ==
    [][ \A c \in CycleIds : \A w \in WebhookIds :
          ( /\ FailedRowsOf(deliveries', w, c) > FailedRowsOf(deliveries, w, c)
            /\ RowsOf(posts, w, TestJobId) = 0
            /\ webhooks[w].failure_count >= cycles[c].snap[w].failure_count )
          => webhooks'[w].failure_count = webhooks[w].failure_count + 1
      ]_vars

(* C14: within one notify call every webhook gets at most one HTTP request   *)
(* and at most one WebhookDelivery row; when the call returns, each         *)
(* matching webhook has got exactly one request and one row, and the others *)
(* none; every step that records an attempt adds one row for one request;   *)
(* rows once written stay as they are.                                       *)
C14_OneAttemptOneRow ==
    [][ /\ \A r \in BagToSet(deliveries) :
              CopiesIn(r, deliveries') >= CopiesIn(r, deliveries)
        /\ BagCardinality(deliveries') - BagCardinality(deliveries)
              <= BagCardinality(posts') - BagCardinality(posts)
        /\ BagCardinality(posts') - BagCardinality(posts) \in {0, 1}
        /\ \A c \in CycleIds : \A w \in WebhookIds :
              /\ RowsOf(posts', w, c) <= 1
              /\ RowsOf(deliveries', w, c) <= 1
              /\ cycles'[c].pc = "done" =>
                    /\ RowsOf(posts', w, c) =
                          (IF w \in cycles'[c].matching THEN 1 ELSE 0)
                    /\ RowsOf(deliveries', w, c) = RowsOf(posts', w, c)
      ]_vars

C14_Witness ==
    \E c \in CycleIds :
        /\ cycles[c].pc = "done"
        /\ cycles[c].matching = {1, 2}
        /\ FailedRowsOf(deliveries, 1, c) = 1
        /\ RowsOf(deliveries, 2, c) = 1
        /\ FailedRowsOf(deliveries, 2, c) = 0
        /\ BagCardinality(posts) = 2

(* ---------------------------------------------------------------------- *)
(* Connector resolution                                                    *)
(* ---------------------------------------------------------------------- *)
Count(conns, types) == Cardinality({ i \in DOMAIN conns : conns[i] \in types })

\* the task ends its attempt without a backoff and a further attempt
EndsAttempt(x) ==
    \/ tasks' = Remove(tasks, x)
    \/ tasks' = Replace(tasks, x, [x EXCEPT !.pc = "notify", !.ev = JOB_FAILED])

(* C15: for every max_retries, an attempt of a client that has no GA4        *)
(* connector or no Shopify/WooCommerce connector persists FAILED with a     *)
(* cause in logs, does not reach the fetches, and is followed by no backoff *)
(* and no further attempt, whatever its connectors and ingestors do.        *)
C15_MissingConnectorFails ==
    [][ \A x \in Running : \A conns \in ConnectorLists : \A o \in Outcomes :
          ( /\ ~HasGA4(conns) \/ ~HasBackend(conns)
            /\ TaskBodyEnds(x, Effective(conns, o)) )
          => /\ ~ReachesFetch(conns)
             /\ job'.status = FAILED
             /\ job'.logs # NullLogs
             /\ EndsAttempt(x)
      ]_vars

(* C16: an attempt of a client that has more than one GA4 connector or more  *)
(* than one Shopify/WooCommerce connector does not reach the fetches: it    *)
(* persists FAILED and is followed by no backoff and no further attempt.    *)
C16_DuplicateConnectorFails ==
    [][ \A x \in Running : \A conns \in ConnectorLists : \A o \in Outcomes :
          ( /\ \/ Count(conns, {"ga4"}) > 1
               \/ Count(conns, {"woocommerce", "shopify"}) > 1
            /\ TaskBodyEnds(x, Effective(conns, o)) )
          => /\ ~ReachesFetch(conns)
             /\ job'.status = FAILED
             /\ EndsAttempt(x)
      ]_vars

(* ---------------------------------------------------------------------- *)
(* Date range                                                              *)
(* ---------------------------------------------------------------------- *)
(* C17: every (days, start_date, end_date) the request schema accepts is     *)
(* resolved by the ingestor at the same instant without a                   *)
(* DataValidationError.                                                      *)
C17_AcceptedThenResolved ==
    (dr.pc = "resolved" /\ dr.request = "accepted") => dr.range.kind = "ok"

\* the example, resolved at an instant at which its start is not more than
\* one day ahead
ResolvesExample ==
    /\ dr.pc = "resolved"
    /\ dr.days = 30
    /\ dr.start_date = "None"
    /\ dr.end_date = "2024-01-31"
    /\ dr.now >= ReplaceEndOfDay(ToOrdinal(<<2023, 12, 31>>))

(* C18 (as amended): days = 30, start_date = None, end_date = "2024-01-31"   *)
(* resolve to start = 2024-01-01T23:59:59 and end = 2024-01-31T23:59:59.    *)
C18_ResolveExample ==
    ResolvesExample =>
        /\ dr.range.kind = "ok"
        /\ IsoFormat(dr.range.start) = <<2024, 1, 1, 23, 59, 59>>
        /\ IsoFormat(dr.range.end) = <<2024, 1, 31, 23, 59, 59>>

C18_Witness ==
    /\ ResolvesExample
    /\ dr.range.kind = "ok"
    /\ dr.range.end - dr.range.start = 30 * SecondsPerDay

(* C18 as stated: the same input resolves to start = 2024-01-01T00:00:00    *)
(* and end = 2024-01-31T23:59:59.                                            *)
C18_AsStated ==
    ResolvesExample =>
        /\ dr.range.kind = "ok"
        /\ IsoFormat(dr.range.start) = <<2024, 1, 1, 0, 0, 0>>
        /\ IsoFormat(dr.range.end) = <<2024, 1, 31, 23, 59, 59>>

(* ---------------------------------------------------------------------- *)
(* Reconciliation                                                          *)
(* ---------------------------------------------------------------------- *)
\* the rows of the example: backend {A:100, B:200, C:300}, analytics
\* {A:100, B:200}
RowA == [clean_id |-> "A", value |-> 100]
RowB == [clean_id |-> "B", value |-> 200]
RowC == [clean_id |-> "C", value |-> 300]

\* the sum of value, row by row from the last one
RECURSIVE TotalOf(_, _)
TotalOf(df, n) == IF n = 0 THEN 0 ELSE TotalOf(df, n - 1) + df[n].value

\* r is x = num / den percent rounded to 2 decimals, in hundredths
IsRounded(r, num, den) ==
    LET d == r * den - num * Percent * Hundredths
    IN 2 * (IF d < 0 THEN -d ELSE d) <= den

(* C19: for every pair of tables, missing_ids is the set of backend ids that *)
(* are not analytics ids, missing_count its size, match_rate the number of  *)
(* ids on both sides over the number of backend rows, in percent rounded to *)
(* 2 decimals, and 0 for an empty backend, each total the sum of value of   *)
(* its side; backend {A:100, B:200, C:300} with analytics {A:100, B:200}    *)
(* gives 66.67, 1, {C}, 600 and 300.                                         *)
C19_ReconcileSummary ==
    rec.pc = "reconciled" =>
      LET b == rec.df_backend
          a == rec.df_ga4
          sm == rec.summary
          both == { id \in {"A", "B", "C"} :
                      /\ \E i \in DOMAIN b : b[i].clean_id = id
                      /\ \E j \in DOMAIN a : a[j].clean_id = id }
      IN /\ ~sm.null
         /\ \A id \in {"A", "B", "C"} :
               id \in sm.missing_ids <=>
                  /\ \E i \in DOMAIN b : b[i].clean_id = id
                  /\ \A j \in DOMAIN a : a[j].clean_id # id
         /\ sm.missing_ids \subseteq {"A", "B", "C"}
         /\ sm.missing_count = Cardinality(sm.missing_ids)
         /\ IF Len(b) = 0
            THEN sm.match_rate = 0
            ELSE IsRounded(sm.match_rate, Cardinality(both), Len(b))
         /\ sm.total_backend_value = TotalOf(b, Len(b))
         /\ sm.total_ga4_value = TotalOf(a, Len(a))
         /\ (b = <<RowA, RowB, RowC>> /\ a = <<RowA, RowB>>) =>
               /\ sm.match_rate = 6667
               /\ sm.missing_count = 1
               /\ sm.missing_ids = {"C"}
               /\ sm.total_backend_value = 600
               /\ sm.total_ga4_value = 300

C19_Witness ==
    /\ rec.pc = "reconciled"
    /\ rec.df_backend = <<RowA, RowB, RowC>>
    /\ rec.df_ga4 = <<RowA, RowB>>
    /\ rec.summary.match_rate = 6667
    /\ rec.summary.missing_ids = {"C"}

(* C20: match_rate is the share of backend rows whose clean_id is an         *)
(* analytics id, in percent rounded to 2 decimals, also when several        *)
(* backend rows have the same clean_id, and it lies between 0 and 100.      *)
C20_ShareOfBackendRows ==
    rec.pc = "reconciled" =>
      LET b == rec.df_backend
          a == rec.df_ga4
          matched == { i \in DOMAIN b :
                         \E j \in DOMAIN a : a[j].clean_id = b[i].clean_id }
      IN /\ rec.summary.match_rate >= 0
         /\ rec.summary.match_rate <= Percent * Hundredths
         /\ IF Len(b) = 0
            THEN rec.summary.match_rate = 0
            ELSE IsRounded(rec.summary.match_rate, Cardinality(matched), Len(b))

(* ---------------------------------------------------------------------- *)
(* Source adapters                                                         *)
(* ---------------------------------------------------------------------- *)
\* the backend fetch has ended
FetchEnded == fetch.pc \in {"returned", "raised"} /\ fetch.requests > 0

(* C21: a Shopify or WooCommerce fetch never issues more than 100 page       *)
(* requests and has ended once it has issued 100; when the 100th response   *)
(* still announces more (a next link, a full page) the fetch returns the    *)
(* records accumulated so far, with the warning, and raises nothing.        *)
C21_PageCeiling ==
    /\ fetch.requests <= 100
    /\ fetch.pc = "paging" => fetch.requests < 100
    /\ (FetchEnded /\ fetch.requests = 100 /\ fetch.more) =>
          /\ fetch.pc = "returned"
          /\ fetch.result.kind = "ok"
          /\ fetch.warned
          /\ fetch.orders >= 100

C21_Witness ==
    /\ fetch.provider = "woocommerce"
    /\ fetch.pc = "returned"
    /\ fetch.requests = 100
    /\ fetch.more
    /\ fetch.warned
    /\ fetch.orders = 100 * 100

\* the step ends the fetch of a provider that answered with no record at all
ZeroRecords ==
    /\ fetch.pc \in {"ga4", "paging"}
    /\ fetch'.pc \in {"returned", "raised"}
    /\ fetch'.result.kind # "APIError"
    /\ IF fetch.pc = "ga4" THEN fetch'.ga4_rows = 0 ELSE fetch'.orders = 0

(* C27: a fetch in which the provider answers with zero records raises       *)
(* DataValidationError; that step persists FAILED with retry_count as it    *)
(* was and sends the task to the job.failed notifications, with no backoff  *)
(* and no further attempt: the job stays as that step left it; a COMPLETED  *)
(* job has fetched at least one record on each side.                        *)
C27_ZeroRecordsFail ==
    [][ /\ ZeroRecords =>
              /\ fetch'.pc = "raised"
              /\ fetch'.result.kind = "DataValidationError"
              /\ job'.status = FAILED
              /\ job'.retry_count = job.retry_count
              /\ \A y \in BagToSet(tasks') :
                    y.pc = "notify" /\ y.ev = JOB_FAILED
        /\ (job.status = FAILED
               /\ job.logs.error.kind = "DataValidationError") => job' = job
        /\ job'.status = COMPLETED =>
              fetch'.ga4_rows > 0 /\ fetch'.orders > 0
      ]_vars

C27_Witness ==
    /\ fetch.provider = "shopify"
    /\ fetch.pc = "raised"
    /\ fetch.result.kind = "DataValidationError"
    /\ fetch.requests = 1
    /\ fetch.orders = 0
    /\ fetch.ga4_rows > 0
    /\ job.status = FAILED
    /\ job.max_retries = 2
    /\ job.retry_count = 0
    /\ tasks = EmptyBag

(* ---------------------------------------------------------------------- *)
(* Retry protocol                                                          *)
(* ---------------------------------------------------------------------- *)
\* the step ends the try block of an attempt with an adapter timeout (an
\* APIError without status code), an APIError with status >= 500 or 429,
\* or an unclassified error
RetryableFailure ==
    /\ fetch.pc \in {"connectors", "ga4", "paging"}
    /\ fetch'.pc = "raised"
    /\ \/ fetch'.result.kind = "Exception"
       \/ /\ fetch'.result.kind = "APIError"
          /\ \/ fetch'.result.code = None
             \/ fetch'.result.code >= 500
             \/ fetch'.result.code = 429

(* C24: an attempt n whose try block ends with an adapter timeout, an         *)
(* APIError with status >= 500 or 429, or an unclassified error persists    *)
(* RETRYING with retry_count = n and goes to the backoff when               *)
(* n < max_retries, and otherwise persists FAILED and goes to the           *)
(* job.failed notifications; the backoff of attempt n is followed by        *)
(* attempt n + 1.                                                            *)
C24_SameRetryArithmetic ==
    [][ \A x \in Running :
          /\ (x.pc = "body" /\ Moves(x) /\ RetryableFailure) =>
                IF x.attempt < job.max_retries
                THEN /\ job'.status = RETRYING
                     /\ job'.retry_count = x.attempt
                     /\ tasks' = Replace(tasks, x, [x EXCEPT !.pc = "sleep"])
                ELSE /\ job'.status = FAILED
                     /\ tasks' = Replace(tasks, x,
                           [x EXCEPT !.pc = "notify", !.ev = JOB_FAILED])
          /\ (x.pc = "sleep" /\ Moves(x)) =>
                tasks' = Replace(tasks, x,
                           [x EXCEPT !.pc = "start", !.attempt = x.attempt + 1])
      ]_vars

C24_Witness ==
    /\ job.status = RETRYING
    /\ job.retry_count = 1
    /\ job.max_retries = 2
    /\ job.logs.error = [kind |-> "APIError", code |-> None]
    /\ fetch.requests = 3
    /\ \E x \in Running : x.pc = "start" /\ x.attempt = 2

\* the task as it is after the step that moved x
Successor(x, y) == y \in BagToSet(tasks') /\ tasks' = Replace(tasks, x, y)

(* C25: the step of an attempt n that enters the backoff sleep has committed *)
(* RETRYING with retry_count = n; attempt n + 1 starts only by the step     *)
(* that ends that sleep, of 2^n seconds, and that step writes nothing to    *)
(* the job; the step that enters the job.completed / job.failed             *)
(* notification has committed that terminal status; while the chain         *)
(* started by run_job sleeps after attempt n, the persisted job is          *)
(* RETRYING with retry_count = n.                                           *)
C25_CommitBeforeSleep ==
    [][ /\ \A x \in Running, y \in BagToSet(tasks') :
             (Moves(x) /\ Successor(x, y)) =>
                /\ (y.pc = "sleep") =>
                      /\ x.pc # "sleep"
                      /\ y.attempt = x.attempt
                      /\ job'.status = RETRYING
                      /\ job'.retry_count = x.attempt
                /\ (y.attempt # x.attempt) =>
                      /\ x.pc = "sleep"
                      /\ y.pc = "start"
                      /\ y.attempt = x.attempt + 1
                      /\ job' = job
                      /\ x.origin = "run" =>
                            runChain'.sleeps =
                               Append(runChain.sleeps, 2 ^ x.attempt)
                /\ (y.pc = "notify") =>
                      /\ job'.status \in TerminalStatuses
                      /\ y.ev = EventOf(job'.status)
        /\ \A y \in BagToSet(tasks') :
             (y.origin = "run" /\ y.pc = "sleep") =>
                /\ job'.status = RETRYING
                /\ job'.retry_count = y.attempt
      ]_vars

C25_Witness ==
    /\ job.status = RETRYING
    /\ job.retry_count = 1
    /\ runChain.sleeps = <<2>>
    /\ \E x \in Running : x.origin = "run" /\ x.pc = "start" /\ x.attempt = 2

(* ---------------------------------------------------------------------- *)
(* Termination                                                             *)
(* ---------------------------------------------------------------------- *)
(* C26: when every call returns or raises and every sleep elapses, a job     *)
(* that is RUNNING or RETRYING eventually is COMPLETED or FAILED.           *)
C26_EventuallyTerminal ==
    (job.status \in {RUNNING, RETRYING}) ~> (job.status \in TerminalStatuses)

(* ---------------------------------------------------------------------- *)
(* Email notifier                                                          *)
(* ---------------------------------------------------------------------- *)
\* the active users of the task's client that have an email address
Recipients(x) ==
    { u \in DOMAIN mail.table :
        /\ mail.table[u].client_id = x.client_id
        /\ mail.table[u].status = ACTIVE
        /\ mail.table[u].has_email }

(* C22: once the users of the client have been read, the email notifier      *)
(* has attempted a send to every active user of the client with an email    *)
(* address when it ends, whichever of the sends failed, and to nobody       *)
(* else; no step of the notifier changes the job.                           *)
C22_EveryRecipientAttempted ==
    [][ \A x \in Running :
          /\ (mail'.pc = "done" /\ mail'.looked_up) =>
                mail'.attempted = Recipients(x)
          /\ mail'.failed \subseteq mail'.attempted
          /\ mail' # mail => job' = job
      ]_vars

C22_Witness ==
    /\ mail.pc = "done"
    /\ mail.attempted = {1, 2}
    /\ mail.failed = {1}
    /\ job.status = COMPLETED

(* ---------------------------------------------------------------------- *)
(* Webhook signature                                                       *)
(* ---------------------------------------------------------------------- *)
(* C23: a posted request of a webhook with a secret S carries                *)
(* X-Webhook-Signature = "sha256=" + hex(HMAC-SHA256(S, P)) with P the body *)
(* that was posted; a posted request of a webhook without a secret carries  *)
(* no X-Webhook-Signature header.                                           *)
C23_SignatureOfBody ==
    sig.posted =>
       IF sig.secret \in {"None", ""}
       THEN "X-Webhook-Signature" \notin DOMAIN sig.headers
       ELSE /\ "X-Webhook-Signature" \in DOMAIN sig.headers
            /\ sig.headers["X-Webhook-Signature"] =
                 <<"sha256=",
                   [hex |-> [alg |-> "sha256",
                             key |-> [utf8 |-> sig.secret],
                             msg |-> [utf8 |-> sig.content]]]>>

C23_Witness ==
    /\ sig.posted
    /\ sig.secret = "s3cr3t"
    /\ "X-Webhook-Signature" \in DOMAIN sig.headers
    /\ sig.content[1] = <<"event", JOB_FAILED>>

(* ---------------------------------------------------------------------- *)
(* Adapter cache                                                           *)
(* ---------------------------------------------------------------------- *)
(* C28: with the cache enabled, the table a fetch for client A returns is    *)
(* a table fetched with client A's own connector.                           *)
C28_OwnRecords ==
    (cache.enabled /\ cache.pc = "returned") =>
        cache.table.owner = cache.client

(* ---------------------------------------------------------------------- *)
(* Retry budget                                                            *)
(* ---------------------------------------------------------------------- *)
\* max(1, max_retries)
AttemptCeiling(j) == IF j.max_retries > 1 THEN j.max_retries ELSE 1

(* C29: with retry_job requests handled one after the other, no step lowers  *)
(* the job's retry_count; an accepted retry_job finds retry_count below      *)
(* max_retries and raises it by one; every attempt has a number              *)
(* n <= max(1, max_retries).                                                 *)
C29_RetryBudget ==
    [][ /\ job.status # ABSENT => job'.retry_count >= job.retry_count
        /\ (resp' = Response("retry_job", 200)
               /\ BagCardinality(reqs') < BagCardinality(reqs)) =>
              /\ job.retry_count < job.max_retries
              /\ job'.retry_count = job.retry_count + 1
              /\ job'.retry_count <= job.max_retries
        /\ \A y \in BagToSet(tasks') :
              /\ y.attempt >= 1
              /\ y.attempt <= AttemptCeiling(job')
      ]_vars

C29_Witness ==
    /\ job.status = FAILED
    /\ job.max_retries = 2
    /\ job.retry_count = 2
    /\ resp = Response("retry_job", 400)
    /\ \E x \in Running : x.origin = "manual" /\ x.attempt = 2

(* ---------------------------------------------------------------------- *)
(* Frame of the job writes                                                 *)
(* ---------------------------------------------------------------------- *)
\* the columns no attempt and no retry_job may change
FrozenColumns ==
    {"id", "client_id", "days", "start_date", "end_date", "config",
     "max_retries"}

(* C30: a commit of an attempt for job J, or of retry_job on J, leaves       *)
(* every other job's row as it is and leaves J's id, client_id, days,       *)
(* start_date, end_date, config and max_retries as they are.                *)
C30_FrameOfWrites ==
    [][ frame' # frame =>
          \A id \in JobIds :
             /\ id # frame'.job_id => frame'.rows[id] = frame.rows[id]
             /\ DOMAIN frame'.rows[id] = DOMAIN frame.rows[id]
             /\ \A f \in FrozenColumns :
                   frame'.rows[id][f] = frame.rows[id][f]
      ]_vars

C30_Witness ==
    /\ frame.pc = "retry_job"
    /\ frame.job_id = 2
    /\ frame.rows[2].status = RUNNING
    /\ frame.rows[2].retry_count = 2
    /\ frame.rows[1].status = COMPLETED
    /\ frame.rows[1].retry_count = 1

====
